---- MODULE Spec2Model ----
(***************************************************************************)
(* Knowledge-graph construction (src/src/core/graph_builder.py) and hybrid *)
(* retrieval (src/src/api/v1/retrieval.py).                                *)
(*                                                                         *)
(* The networkx MultiDiGraph is a record                                   *)
(*   order : node ids in insertion order (the order of graph.nodes()),     *)
(*   data  : node id -> attribute dictionary,                              *)
(*   edges : set of [src, dst, key, edge_type] (key as networkx numbers    *)
(*           parallel edges),                                              *)
(*   meta  : the graph-level dictionary graph.graph.                       *)
(* Attribute dictionaries are functions from key strings to values.        *)
(* created_at / last_updated timestamps, title, content, tables, figures   *)
(* and the write-only counters node_count / edge_count are read by none of *)
(* the modelled operations and are left out.                               *)
(***************************************************************************)
EXTENDS Integers, Sequences, FiniteSets, TLC

VARIABLES
    universe,         \* the rel_paths that are ever written under data_path
    dir,              \* rel_paths of the *.json files present under data_path
    graph,            \* KnowledgeGraphBuilder.graph
    processed_files,  \* KnowledgeGraphBuilder.processed_files
    saved,            \* the pickle written by save_graph (NoGraph before)
    result,           \* what the last build_from_directory call returned
    calls,            \* number of build_from_directory calls so far
    last_call,        \* observer: inputs and effects of the last build call
    batch,            \* observer: chunk_id -> number of the call that ingested it
    search_engine,    \* the global search_engine: None, or what it was built with
    enable_reranking, \* settings.enable_reranking
    query,            \* the retrieval handler: idle, or request and response
    ingestion_jobs,   \* ingest.ingestion_jobs: job_id -> job entry
    graph_jobs,       \* graph.graph_jobs: job_id -> job entry
    llm_jobs,         \* llm.llm_jobs: job_id -> job entry
    tasks,            \* job_id -> the background task added for it and its position
    status_log,       \* observer: job_id -> every status its entry was given, in order
    polled            \* observer: job_id -> the statuses the status endpoint reported

builder_vars == <<universe, dir, graph, processed_files, saved, result, calls, last_call, batch>>

retrieval_vars == <<search_engine, enable_reranking, query>>

job_vars == <<ingestion_jobs, graph_jobs, llm_jobs, tasks, status_log, polled>>

vars == <<builder_vars, retrieval_vars, job_vars>>

\* Build calls in one behaviour.
MaxCalls == 2

(***************************************************************************)
(* Python values                                                           *)
(***************************************************************************)
None == "None"
EmptyDict == [k \in {} |-> k]

\* the job dictionaries of a server that has taken no job request
NoJobs ==
    /\ ingestion_jobs = EmptyDict
    /\ graph_jobs = EmptyDict
    /\ llm_jobs = EmptyDict
    /\ tasks = EmptyDict
    /\ status_log = EmptyDict
    /\ polled = EmptyDict

\* dict.get(k, default)
Get(d, k, default) == IF k \in DOMAIN d THEN d[k] ELSE default

\* dict.update(new): keys of new overwrite, the others stay
Update(old, new) ==
    [k \in (DOMAIN old) \cup (DOMAIN new) |-> IF k \in DOMAIN new THEN new[k] ELSE old[k]]

\* truthiness of an optional string: None and "" are falsy
Truthy(x) == x # None /\ x # ""

Range(seq) == {seq[i] : i \in 1..Len(seq)}

\* x in list
InList(x, list) == \E i \in 1..Len(list) : list[i] = x

(***************************************************************************)
(* The source directory.  AllFiles is every rel_path the directory can     *)
(* hold, in sorted() order; FileContent is what json.load returns for it.  *)
(***************************************************************************)
AllFiles == <<"a.json", "b.json", "c.json", "d.json", "e.json", "f.json", "g.json",
              "h.json", "i.json", "k.json", "s.json">>

Unparseable == [unparseable |-> TRUE]

FileContent(path) ==
    CASE path = "a.json" ->
           [chunk_id |-> "c1", document_id |-> "D1", clause_id |-> "4",
            children_ids |-> <<"4.1", "4.2">>,
            references |-> [internal_resolved |-> <<"4.1">>, standards |-> <<"ISO">>],
            requirements |-> <<[type |-> "mandatory", text |-> "shall withstand vibration"]>>]
      [] path = "b.json" ->
           [chunk_id |-> "c2", document_id |-> "D1", clause_id |-> "4.1",
            parent_id |-> "4",
            references |-> [internal_resolved |-> <<"4.2", "9.9">>],
            requirements |-> <<[type |-> "recommended", text |-> "should resist humidity"],
                               [type |-> "mandatory", text |-> "Shock and vibration stress"]>>]
      [] path = "c.json" ->
           [chunk_id |-> "c3", document_id |-> "D1", clause_id |-> "4.2",
            parent_id |-> "4",
            references |-> [standards |-> <<"IEC">>],
            requirements |-> <<[type |-> "informative", text |-> "see annex"],
                               [type |-> "informative", text |-> "as agreed"]>>]
      [] path = "d.json" -> Unparseable
      [] path = "e.json" ->
           [document_id |-> "D1", clause_id |-> "5",
            requirements |-> <<[type |-> "mandatory", text |-> "lost"]>>]
      [] path = "f.json" ->
           [chunk_id |-> "c2", document_id |-> "D1", clause_id |-> "4.1",
            parent_id |-> "4",
            requirements |-> <<[type |-> "mandatory", text |-> "impact force"]>>]
      [] path = "g.json" ->
           [chunk_id |-> "D1", document_id |-> "D2", clause_id |-> "",
            references |-> [standards |-> <<"IEC">>],
            requirements |->
                <<[type |-> "recommended",
                   text |-> "Mechanical shock vibration force stress impact"],
                  [type |-> "mandatory",
                   text |-> "Mechanical shock vibration force stress impact drop"]>>]
      [] path = "h.json" ->
           [chunk_id |-> "h1", document_id |-> "D3", clause_id |-> "misc",
            children_ids |-> <<"misc", "Annex 4.2.1", "Annex 4.2.1", "9.9">>]
      [] path = "i.json" ->
           [chunk_id |-> "i1", document_id |-> "D3", clause_id |-> "Annex 4.2.1",
            parent_id |-> "misc",
            references |-> [internal_resolved |-> <<"misc">>]]
      [] path = "k.json" ->
           [chunk_id |-> "k1", document_id |-> "D4", clause_id |-> "Annex 4.2.1",
            parent_id |-> "misc",
            references |-> [internal_resolved |-> <<"Annex 4.2.1">>]]
      [] path = "s.json" ->
           [chunk_id |-> "s1", document_id |-> "S1", clause_id |-> "4.2",
            requirements |-> <<[text |-> "shall withstand vibration"],
                               [text |-> "should resist humidity"]>>]

\* json.load(f) raises for a file that is not JSON
Loadable(path) == "unparseable" \notin DOMAIN FileContent(path)

(***************************************************************************)
(* networkx.MultiDiGraph                                                   *)
(***************************************************************************)
EmptyGraph == [order |-> <<>>, data |-> EmptyDict, edges |-> {}, meta |-> EmptyDict]

has_node(g, n) == n \in DOMAIN g.data

\* add_node(n, **attrs): a new node goes to the end; an existing node keeps
\* its place and has its attributes updated
add_node(g, n, attrs) ==
    [g EXCEPT !.order = IF has_node(g, n) THEN @ ELSE Append(@, n),
              !.data = [m \in (DOMAIN g.data) \cup {n} |->
                          IF m = n THEN Update(Get(g.data, n, EmptyDict), attrs)
                          ELSE g.data[m]]]

EdgeKeys(g, u, v) == {e.key : e \in {x \in g.edges : x.src = u /\ x.dst = v}}

\* has_edge(u, v): an edge of any key, hence of any edge_type
has_edge(g, u, v) == EdgeKeys(g, u, v) # {}

\* has_edge(u, v, key=k)
has_edge_key(g, u, v, k) == k \in EdgeKeys(g, u, v)

\* new_edge_key: the number of parallel edges, stepped past used keys
new_edge_key(g, u, v) ==
    LET keys == EdgeKeys(g, u, v)
        n    == Cardinality(keys)
    IN  CHOOSE k \in n..(2 * n) : k \notin keys /\ \A j \in n..(k - 1) : j \in keys

\* add_edge(u, v, edge_type=t): always adds a parallel edge; missing end
\* points are created without attributes
add_edge(g, u, v, t) ==
    LET g1 == IF has_node(g, u) THEN g ELSE add_node(g, u, EmptyDict)
        g2 == IF has_node(g1, v) THEN g1 ELSE add_node(g1, v, EmptyDict)
    IN  [g2 EXCEPT !.edges = @ \cup
            {[src |-> u, dst |-> v, key |-> new_edge_key(g, u, v), edge_type |-> t]}]

node_type(g, n) == Get(g.data[n], "node_type", None)

(***************************************************************************)
(* KnowledgeGraphBuilder._create_nodes                                     *)
(***************************************************************************)
\* str.replace(old, ""): every occurrence of old, left to right, taken out
RECURSIVE RemoveAll(_, _, _)
RemoveAll(s, old, i) ==
    IF i > Len(s) THEN ""
    ELSE IF i + Len(old) - 1 <= Len(s) /\ SubSeq(s, i, i + Len(old) - 1) = old
         THEN RemoveAll(s, old, i + Len(old))
         ELSE SubSeq(s, i, i) \o RemoveAll(s, old, i + 1)

\* str.split(sep) for a one-character sep: the pieces between the
\* separators, empty ones included
RECURSIVE SplitOn(_, _, _, _)
SplitOn(s, sep, i, piece) ==
    IF i > Len(s) THEN <<piece>>
    ELSE IF SubSeq(s, i, i) = sep
         THEN <<piece>> \o SplitOn(s, sep, i + 1, "")
         ELSE SplitOn(s, sep, i + 1, piece \o SubSeq(s, i, i))

\* the test for "misc" left out
DepthOfMiscCounted(clause_id) ==
    IF clause_id # "" /\ clause_id # None
    THEN Len(SplitOn(RemoveAll(clause_id, "Annex ", 1), ".", 1, ""))
    ELSE 0

\* clause_node['depth']
DepthOf(clause_id) ==
    IF Truthy(clause_id) /\ clause_id # "misc"
    THEN Len(SplitOn(RemoveAll(clause_id, "Annex ", 1), ".", 1, ""))
    ELSE 0

\* the requirements numbered from 1
ReqIdOneBased(chunk_id, idx) == chunk_id \o "::req_" \o ToString(idx + 1)

\* f"{chunk_id}::req_{idx}"
ReqId(chunk_id, idx) == chunk_id \o "::req_" \o ToString(idx)

\* the loop over enumerate(requirements), from position idx on
RECURSIVE CreateRequirements(_, _, _, _)
CreateRequirements(g, chunk_id, requirements, idx) ==
    IF idx >= Len(requirements) THEN g
    ELSE LET req    == requirements[idx + 1]
             req_id == ReqId(chunk_id, idx)
             req_node == [node_type |-> "Requirement",
                          requirement_id |-> req_id,
                          parent_clause |-> chunk_id,
                          requirement_type |-> Get(req, "type", "unknown"),
                          keyword |-> Get(req, "keyword", ""),
                          text |-> Get(req, "text", "")]
             g1 == add_node(g, req_id, req_node)
             g2 == add_edge(g1, chunk_id, req_id, "CONTAINS_REQUIREMENT")
         IN  CreateRequirements(g2, chunk_id, requirements, idx + 1)

\* DepthOf of every clause_id the source files hold
DepthTable ==
    [c \in {Get(FileContent(AllFiles[i]), "clause_id", "") : i \in 1..Len(AllFiles)} |->
        DepthOf(c)]

Depth(clause_id) ==
    IF clause_id \in DOMAIN DepthTable THEN DepthTable[clause_id] ELSE DepthOf(clause_id)

ClauseNode(doc) ==
    [node_type |-> "Clause",
     chunk_id |-> Get(doc, "chunk_id", ""),
     document_id |-> Get(doc, "document_id", ""),
     clause_id |-> Get(doc, "clause_id", ""),
     parent_id |-> Get(doc, "parent_id", None),
     children_ids |-> Get(doc, "children_ids", <<>>),
     references |-> Get(doc, "references", EmptyDict),
     source_file |-> Get(doc, "_source_file", ""),
     depth |-> Depth(Get(doc, "clause_id", ""))]

\* the loop over documents, from position i on; standards is the local dict
\* of document ids already given a Standard node by this call
RECURSIVE CreateNodes(_, _, _, _)
CreateNodes(g, documents, i, standards) ==
    IF i > Len(documents) THEN g
    ELSE LET doc         == documents[i]
             chunk_id    == Get(doc, "chunk_id", "")
             document_id == Get(doc, "document_id", "")
         IN  IF chunk_id = "" \/ document_id = ""
             THEN CreateNodes(g, documents, i + 1, standards)
             ELSE LET g1 == IF document_id \notin standards
                            THEN add_node(g, document_id,
                                          [node_type |-> "Standard",
                                           document_id |-> document_id,
                                           title |-> document_id])
                            ELSE g
                      g2 == add_node(g1, chunk_id, ClauseNode(doc))
                      g3 == IF ~has_edge(g2, document_id, chunk_id)
                            THEN add_edge(g2, document_id, chunk_id, "CONTAINS_CLAUSE")
                            ELSE g2
                      g4 == CreateRequirements(g3, chunk_id,
                                               Get(doc, "requirements", <<>>), 0)
                  IN  CreateNodes(g4, documents, i + 1, standards \cup {document_id})

_create_nodes(g, documents) == CreateNodes(g, documents, 1, {})

(***************************************************************************)
(* clause_lookup, built the same way by both link passes: a later Clause   *)
(* node with the same clause_id overwrites an earlier one                  *)
(***************************************************************************)
RECURSIVE ClauseLookupFrom(_, _, _)
ClauseLookupFrom(g, i, lookup) ==
    IF i > Len(g.order) THEN lookup
    ELSE LET node_id   == g.order[i]
             data      == g.data[node_id]
             clause_id == Get(data, "clause_id", None)
         IN  IF Get(data, "node_type", None) = "Clause" /\ Truthy(clause_id)
             THEN ClauseLookupFrom(g, i + 1, Update(lookup, [k \in {clause_id} |-> node_id]))
             ELSE ClauseLookupFrom(g, i + 1, lookup)

clause_lookup(g) == ClauseLookupFrom(g, 1, EmptyDict)

(***************************************************************************)
(* KnowledgeGraphBuilder._create_structural_links                          *)
(***************************************************************************)
\* the clause's own clause_id not passed over
RECURSIVE SiblingLoopOwnId(_, _, _, _, _, _)
SiblingLoopOwnId(g, node_id, clause_id, children, j, lookup) ==
    IF j > Len(children) THEN g
    ELSE LET sibling_id == children[j]
         IN  IF sibling_id \in DOMAIN lookup
             THEN LET sibling_node_id == lookup[sibling_id]
                      g1 == IF ~has_edge_key(g, node_id, sibling_node_id, 0)
                            THEN add_edge(g, node_id, sibling_node_id, "SIBLING_OF")
                            ELSE g
                  IN  SiblingLoopOwnId(g1, node_id, clause_id, children, j + 1, lookup)
             ELSE SiblingLoopOwnId(g, node_id, clause_id, children, j + 1, lookup)

\* the loop over the parent's children_ids, from position j on
RECURSIVE SiblingLoop(_, _, _, _, _, _)
SiblingLoop(g, node_id, clause_id, children, j, lookup) ==
    IF j > Len(children) THEN g
    ELSE LET sibling_id == children[j]
         IN  IF sibling_id # clause_id /\ sibling_id \in DOMAIN lookup
             THEN LET sibling_node_id == lookup[sibling_id]
                      g1 == IF ~has_edge_key(g, node_id, sibling_node_id, 0)
                            THEN add_edge(g, node_id, sibling_node_id, "SIBLING_OF")
                            ELSE g
                  IN  SiblingLoop(g1, node_id, clause_id, children, j + 1, lookup)
             ELSE SiblingLoop(g, node_id, clause_id, children, j + 1, lookup)

\* the body of the loop for one Clause node
StructuralStep(g, node_id, lookup) ==
    LET data      == g.data[node_id]
        parent_id == Get(data, "parent_id", None)
    IN  IF Truthy(parent_id) /\ parent_id \in DOMAIN lookup
        THEN LET parent_node_id == lookup[parent_id]
                 g1 == IF ~has_edge(g, parent_node_id, node_id)
                       THEN add_edge(g, parent_node_id, node_id, "PARENT_OF")
                       ELSE g
                 children  == Get(g1.data[parent_node_id], "children_ids", <<>>)
                 clause_id == Get(data, "clause_id", None)
             IN  IF InList(clause_id, children)
                 THEN SiblingLoop(g1, node_id, clause_id, children, 1, lookup)
                 ELSE g1
        ELSE g

\* the loop over graph.nodes(data=True), from position i on
RECURSIVE StructuralLoop(_, _, _)
StructuralLoop(g, i, lookup) ==
    IF i > Len(g.order) THEN g
    ELSE LET node_id == g.order[i]
         IN  IF node_type(g, node_id) # "Clause"
             THEN StructuralLoop(g, i + 1, lookup)
             ELSE StructuralLoop(StructuralStep(g, node_id, lookup), i + 1, lookup)

_create_structural_links(g) == StructuralLoop(g, 1, clause_lookup(g))

(***************************************************************************)
(* KnowledgeGraphBuilder._create_reference_links                           *)
(***************************************************************************)
\* an entry that resolves to no Clause linked all the same, to its own id
RECURSIVE InternalRefLoopUnresolved(_, _, _, _, _)
InternalRefLoopUnresolved(g, node_id, internal_refs, j, lookup) ==
    IF j > Len(internal_refs) THEN g
    ELSE LET ref_clause_id == internal_refs[j]
             ref_node_id == Get(lookup, ref_clause_id, ref_clause_id)
             g1 == IF ~has_edge(g, node_id, ref_node_id)
                   THEN add_edge(g, node_id, ref_node_id, "REFERENCES")
                   ELSE g
         IN  InternalRefLoopUnresolved(g1, node_id, internal_refs, j + 1, lookup)

\* the loop over references['internal_resolved'], from position j on
RECURSIVE InternalRefLoop(_, _, _, _, _)
InternalRefLoop(g, node_id, internal_refs, j, lookup) ==
    IF j > Len(internal_refs) THEN g
    ELSE LET ref_clause_id == internal_refs[j]
         IN  IF ref_clause_id \in DOMAIN lookup
             THEN LET ref_node_id == lookup[ref_clause_id]
                      g1 == IF ~has_edge(g, node_id, ref_node_id)
                            THEN add_edge(g, node_id, ref_node_id, "REFERENCES")
                            ELSE g
                  IN  InternalRefLoop(g1, node_id, internal_refs, j + 1, lookup)
             ELSE InternalRefLoop(g, node_id, internal_refs, j + 1, lookup)

ExtId(std_ref) == "EXT::" \o std_ref

\* the loop over references['standards'], from position j on
RECURSIVE StandardRefLoop(_, _, _, _)
StandardRefLoop(g, node_id, std_refs, j) ==
    IF j > Len(std_refs) THEN g
    ELSE LET std_ref     == std_refs[j]
             std_node_id == ExtId(std_ref)
             g1 == IF ~has_node(g, std_node_id)
                   THEN add_node(g, std_node_id,
                                 [node_type |-> "ExternalStandard",
                                  standard_name |-> std_ref])
                   ELSE g
             g2 == IF ~has_edge(g1, node_id, std_node_id)
                   THEN add_edge(g1, node_id, std_node_id, "CITES_STANDARD")
                   ELSE g1
         IN  StandardRefLoop(g2, node_id, std_refs, j + 1)

\* the loop over nodes_list (the nodes present when the pass starts)
RECURSIVE ReferenceLoop(_, _, _, _)
ReferenceLoop(g, nodes_list, i, lookup) ==
    IF i > Len(nodes_list) THEN g
    ELSE LET node_id == nodes_list[i]
         IN  IF node_type(g, node_id) # "Clause"
             THEN ReferenceLoop(g, nodes_list, i + 1, lookup)
             ELSE LET references == Get(g.data[node_id], "references", EmptyDict)
                      g1 == InternalRefLoop(g, node_id,
                               Get(references, "internal_resolved", <<>>), 1, lookup)
                      g2 == StandardRefLoop(g1, node_id,
                               Get(references, "standards", <<>>), 1)
                  IN  ReferenceLoop(g2, nodes_list, i + 1, lookup)

_create_reference_links(g) == ReferenceLoop(g, g.order, 1, clause_lookup(g))

(***************************************************************************)
(* Python's str ordering (by code point), used by sorted() on node ids     *)
(***************************************************************************)
\* the characters that occur in ids and texts, in code point order
Alphabet == " .0123456789:ABCDEFGHIJKLMNOPQRSTUVWXYZ_abcdefghijklmnopqrstuvwxyz"

CharAt(s, i) == SubSeq(s, i, i)

CodePoints ==
    [c \in {CharAt(Alphabet, i) : i \in 1..Len(Alphabet)} |->
        CHOOSE i \in 1..Len(Alphabet) : CharAt(Alphabet, i) = c]

Ord(c) == CodePoints[c]

RECURSIVE StrLessFrom(_, _, _)
StrLessFrom(a, b, i) ==
    IF i > Len(b) THEN FALSE
    ELSE IF i > Len(a) THEN TRUE
    ELSE IF CharAt(a, i) = CharAt(b, i) THEN StrLessFrom(a, b, i + 1)
    ELSE Ord(CharAt(a, i)) < Ord(CharAt(b, i))

\* a < b
StrLess(a, b) == StrLessFrom(a, b, 1)

\* every node id the source files can give rise to
NodeIds ==
    UNION {LET doc == FileContent(AllFiles[i])
               c   == Get(doc, "chunk_id", "")
           IN  {c, Get(doc, "document_id", "")}
               \cup {ReqId(c, idx) : idx \in 0..(Len(Get(doc, "requirements", <<>>)) - 1)}
               \cup {ExtId(std) : std \in Range(Get(Get(doc, "references", EmptyDict),
                                                      "standards", <<>>))} :
           i \in 1..Len(AllFiles)}

\* StrLess tabulated over the node ids
Smaller == [x \in NodeIds |-> {y \in NodeIds : StrLess(y, x)}]

\* a < b for node ids
IdLess(a, b) ==
    IF a \in NodeIds /\ b \in NodeIds THEN a \in Smaller[b] ELSE StrLess(a, b)

\* sorted(ids): insertion of ids[i..] into the sorted list acc
RECURSIVE SortedFrom(_, _, _)
SortedFrom(ids, i, acc) ==
    IF i > Len(ids) THEN acc
    ELSE LET x == ids[i]
             before == SelectSeq(acc, LAMBDA y : ~IdLess(x, y))
             after  == SelectSeq(acc, LAMBDA y : IdLess(x, y))
         IN  SortedFrom(ids, i + 1, before \o <<x>> \o after)

\* the ids left in insertion order
Unsorted(ids) == ids

Sorted(ids) == SortedFrom(ids, 1, <<>>)

(***************************************************************************)
(* KnowledgeGraphBuilder._compute_statistics / _compute_checksum           *)
(***************************************************************************)
CountType(g, t) == Cardinality({n \in DOMAIN g.data : Get(g.data[n], "node_type", "") = t})

_compute_statistics(g) ==
    [nodes |-> Len(g.order),
     edges |-> Cardinality(g.edges),
     standards |-> CountType(g, "Standard"),
     clauses |-> CountType(g, "Clause"),
     requirements |-> CountType(g, "Requirement"),
     external_standards |-> CountType(g, "ExternalStandard")]

\* nodes[:10]
ChecksumSample == 10

\* The canonical representation that is serialised with json.dumps and
\* digested with SHA-256; two graphs have the same checksum exactly when
\* their representations are equal (up to hash collision).
_compute_checksum(g) ==
    LET nodes == Sorted(g.order)
        top   == IF Len(nodes) < ChecksumSample THEN Len(nodes) ELSE ChecksumSample
    IN  [nodes |-> Len(nodes),
         edges |-> Cardinality(g.edges),
         node_ids |-> SubSeq(nodes, 1, top)]

(***************************************************************************)
(* KnowledgeGraphBuilder.build_from_directory                              *)
(***************************************************************************)
\* sorted(data_dir.rglob("*.json")), as rel_paths
JsonFiles(d) == SelectSeq(AllFiles, LAMBDA f : f \in d)

\* the filter on processed_files left out
NewFilesUnfiltered(json_files, processed) == json_files

\* the files whose rel_path is not in processed_files
NewFiles(json_files, processed) == SelectSeq(json_files, LAMBDA f : f \notin processed)

\* one file that json.load cannot read ends the loading of all
LoadedFilesAbort(new_files) ==
    IF \A i \in 1..Len(new_files) : Loadable(new_files[i]) THEN new_files ELSE <<>>

\* the files of new_files that json.load reads; only these are marked processed
LoadedFiles(new_files) == SelectSeq(new_files, Loadable)

\* documents: each loaded dict with data['_source_file'] = rel_path
Documents(loaded) ==
    [i \in 1..Len(loaded) |-> Update(FileContent(loaded[i]), [_source_file |-> loaded[i]])]

\* phases 1 to 3 and the metadata update, on graph g
BuildGraph(g, documents, processed, enable_structural, enable_reference) ==
    LET g1 == _create_nodes(g, documents)
        g2 == IF enable_structural THEN _create_structural_links(g1) ELSE g1
        g3 == IF enable_reference THEN _create_reference_links(g2) ELSE g2
    IN  [g3 EXCEPT !.meta = Update(@, [processed_files |-> processed])]

\* chunk ids of the documents that _create_nodes does not skip
Ingested(documents) ==
    {Get(documents[i], "chunk_id", "") : i \in
        {j \in 1..Len(documents) : Get(documents[j], "chunk_id", "") # ""
                                   /\ Get(documents[j], "document_id", "") # ""}}

NoDir == {"<no build>"}

Observe(new_files, loaded, enable_structural, enable_reference, g) ==
    [how |-> last_call.how,
     builds |-> last_call.builds + 1,
     dir |-> dir,
     checksum |-> _compute_checksum(g),
     same_dir |-> (last_call.dir = dir),
     prev_checksum |-> last_call.checksum,
     new_files |-> new_files,
     loaded |-> loaded,
     pre_processed |-> processed_files,
     structural |-> enable_structural,
     reference |-> enable_reference,
     passes |-> (new_files # <<>>)]

\* what one call does to a builder holding graph g and the set processed,
\* over the directory listing d
BuildOutcome(g, processed, d, enable_structural, enable_reference) ==
    LET new_files == NewFiles(JsonFiles(d), processed)
        loaded    == LoadedFiles(new_files)
        marked    == processed \cup Range(loaded)
    IN  IF new_files = <<>>
        THEN [new_files |-> new_files, loaded |-> <<>>, graph |-> g,
              processed_files |-> processed]
        ELSE [new_files |-> new_files, loaded |-> loaded,
              graph |-> BuildGraph(g, Documents(loaded), marked,
                                   enable_structural, enable_reference),
              processed_files |-> marked]

\* the dictionary the call returns; the early return carries no checksum
BuildReturn(g, new_files) ==
    LET stats == _compute_statistics(g)
    IN  IF new_files = <<>>
        THEN Update(stats, [new_files_processed |-> 0])
        ELSE [nodes_created |-> stats.nodes,
              edges_created |-> stats.edges,
              standards |-> stats.standards,
              clauses |-> stats.clauses,
              requirements |-> stats.requirements,
              graph_checksum |-> _compute_checksum(g),
              new_files_processed |-> Len(new_files)]

build_from_directory(enable_structural, enable_reference) ==
    /\ calls < MaxCalls
    /\ LET out == BuildOutcome(graph, processed_files, dir,
                               enable_structural, enable_reference)
           ingested == Ingested(Documents(out.loaded))
       IN  /\ graph' = out.graph
           /\ processed_files' = out.processed_files
           /\ result' = BuildReturn(out.graph, out.new_files)
           /\ last_call' = Observe(out.new_files, out.loaded, enable_structural,
                                   enable_reference, out.graph)
           /\ batch' = [c \in (DOMAIN batch) \cup ingested |->
                          IF c \in ingested THEN Get(batch, c, {}) \cup {calls + 1}
                          ELSE batch[c]]
    /\ calls' = calls + 1
    /\ UNCHANGED <<universe, dir, saved>>
    /\ UNCHANGED <<retrieval_vars, job_vars>>

\* a file is written under data_path between two calls
AddFile(f) ==
    /\ calls < MaxCalls
    /\ f \in universe
    /\ f \notin dir
    /\ dir' = dir \cup {f}
    /\ UNCHANGED <<universe, graph, processed_files, saved, result, calls, last_call, batch>>
    /\ UNCHANGED <<retrieval_vars, job_vars>>

(***************************************************************************)
(* save_graph, and the two ways a builder is restored from the pickle      *)
(***************************************************************************)
NoGraph == [exists |-> FALSE]

\* pickle.dump(self.graph); built_dir is an observer: the directory listing
\* at the last build call behind the pickled graph
save_graph ==
    /\ last_call.builds > 0
    /\ saved' = [exists |-> TRUE, graph |-> graph, built_dir |-> last_call.dir]
    /\ saved' # saved
    /\ UNCHANGED <<universe, dir, graph, processed_files, result, calls, last_call, batch>>
    /\ UNCHANGED <<retrieval_vars, job_vars>>

Restored(how) ==
    [last_call EXCEPT !.how = how, !.builds = 0, !.dir = saved.built_dir,
                      !.checksum = _compute_checksum(saved.graph),
                      !.same_dir = FALSE, !.new_files = <<>>, !.loaded = <<>>,
                      !.passes = FALSE]

\* KnowledgeGraphBuilder(existing_graph=pickle.load(f))
NewBuilderFrom ==
    /\ saved.exists
    /\ graph' = saved.graph
    /\ processed_files' = Get(saved.graph.meta, "processed_files", {})
    /\ last_call' = Restored("ctor")
    /\ last_call' # last_call
    /\ UNCHANGED <<universe, dir, saved, result, calls, batch>>
    /\ UNCHANGED <<retrieval_vars, job_vars>>

\* KnowledgeGraphBuilder() followed by load_graph(path)
load_existing_graph ==
    /\ saved.exists
    /\ graph' = saved.graph
    /\ processed_files' = {}
    /\ last_call' = Restored("load")
    /\ last_call' # last_call
    /\ UNCHANGED <<universe, dir, saved, result, calls, batch>>
    /\ UNCHANGED <<retrieval_vars, job_vars>>

QIdle == [pc |-> "idle"]

NoCall ==
    [how |-> "fresh", builds |-> 0, dir |-> NoDir,
     checksum |-> _compute_checksum(EmptyGraph), same_dir |-> FALSE,
     prev_checksum |-> _compute_checksum(EmptyGraph),
     new_files |-> <<>>, loaded |-> <<>>, pre_processed |-> {},
     structural |-> FALSE, reference |-> FALSE, passes |-> FALSE]

\* the directories explored: a clause hierarchy with references, a valid
\* file among unusable ones, two files that carry the same chunk_id, and a
\* file whose chunk_id is the document_id of the others
Universes == {{"a.json", "b.json", "c.json"},
              {"a.json", "d.json", "e.json"},
              {"a.json", "b.json", "f.json"},
              {"a.json", "g.json"}}

Init ==
    /\ universe \in Universes
    /\ dir = {}
    /\ graph = EmptyGraph
    /\ processed_files = {}
    /\ saved = NoGraph
    /\ result = EmptyDict
    /\ calls = 0
    /\ last_call = NoCall
    /\ batch = EmptyDict
    /\ search_engine = None
    /\ enable_reranking = FALSE
    /\ query = QIdle
    /\ NoJobs

Next ==
    \/ \E f \in Range(AllFiles) : AddFile(f)
    \/ \E s \in BOOLEAN, r \in BOOLEAN : build_from_directory(s, r)
    \/ save_graph
    \/ NewBuilderFrom
    \/ load_existing_graph

Spec == Init /\ [][Next]_vars

\* the directories of the clause hierarchies: one standard with a parent
\* and its children, and two standards that hold the same clause_id under
\* a parent that lists it twice, next to its own clause_id, and a clause
\* without clause_id
HierarchyUniverses == {{"a.json", "b.json", "c.json"},
                       {"h.json", "i.json", "k.json"},
                       {"g.json"}}

HInit ==
    /\ universe \in HierarchyUniverses
    /\ dir = {}
    /\ graph = EmptyGraph
    /\ processed_files = {}
    /\ saved = NoGraph
    /\ result = EmptyDict
    /\ calls = 0
    /\ last_call = NoCall
    /\ batch = EmptyDict
    /\ search_engine = None
    /\ enable_reranking = FALSE
    /\ query = QIdle
    /\ NoJobs

HSpec == HInit /\ [][Next]_vars

(***************************************************************************)
(* query_knowledge_graph (src/src/api/v1/retrieval.py)                     *)
(*                                                                         *)
(* Scores are exact decimals counted in units of 1/30000, so that m/6, the *)
(* 1.2 boost, the fusion weights and the thousandths of round(x, 3) are    *)
(* all integers; the similarities and thresholds drawn below keep every    *)
(* product exact and never land on a rounding tie.                         *)
(***************************************************************************)
One == 30 * 1000

Tenth(n) == (n * One) \div 10

Min(a, b) == IF a < b THEN a ELSE b

\* str.lower(), character by character
LowerCase ==
    [c \in {CharAt(Alphabet, i) : i \in 1..Len(Alphabet)} |->
        IF Ord(c) >= Ord("A") /\ Ord(c) <= Ord("Z")
        THEN CharAt(Alphabet, Ord(c) + (Ord("a") - Ord("A")))
        ELSE c]

RECURSIVE LowerFrom(_, _)
LowerFrom(s, i) ==
    IF i > Len(s) THEN ""
    ELSE (IF CharAt(s, i) \in DOMAIN LowerCase THEN LowerCase[CharAt(s, i)] ELSE CharAt(s, i))
         \o LowerFrom(s, i + 1)

Lower(s) == LowerFrom(s, 1)

\* str.split(): the maximal runs of non-blank characters
RECURSIVE SplitFrom(_, _, _)
SplitFrom(s, i, word) ==
    IF i > Len(s) THEN (IF word = "" THEN <<>> ELSE <<word>>)
    ELSE IF CharAt(s, i) = " "
         THEN (IF word = "" THEN <<>> ELSE <<word>>) \o SplitFrom(s, i + 1, "")
         ELSE SplitFrom(s, i + 1, word \o CharAt(s, i))

Split(s) == SplitFrom(s, 1, "")

\* term in text
Contains(text, term) ==
    \E i \in 1..(Len(text) - Len(term) + 1) : SubSeq(text, i, i + Len(term) - 1) = term

\* the second thermal entry is the two characters degree sign and c
keyword_map ==
    [thermal |-> <<"temperature", "heat", "thermal", "cold", "hot", "celsius",
                   "~c", "climate", "shock">>,
     mechanical |-> <<"vibration", "shock", "mechanical", "force", "stress",
                      "impact", "drop">>,
     environmental |-> <<"humidity", "water", "dust", "environment", "climate",
                         "moisture", "salt", "corrosion", "ingress">>,
     electrical |-> <<"voltage", "current", "electrical", "power", "resistance",
                      "insulation", "dielectric", "short">>,
     emc |-> <<"emc", "electromagnetic", "interference", "emission", "immunity",
               "electrostatic", "esd", "conducted", "radiated">>,
     durability |-> <<"durability", "life", "cycle", "endurance", "aging", "wear">>]

\* the keyword_map expansion of the categories left out
SearchTermsNoExpansion(component) ==
    LET cats  == {Lower(component.test_categories[i]) :
                     i \in 1..Len(component.test_categories)}
        words == Range(Split(Lower(component.type)))
                 \cup Range(Split(Lower(component.application)))
                 \cup cats
    IN  {Lower(t) : t \in {w \in words : Len(w) > 2}}

\* the term set: words of type and application, the categories and their
\* keyword_map expansion, lower-cased, longer than 2, without duplicates
SearchTerms(component) ==
    LET cats  == {Lower(component.test_categories[i]) :
                     i \in 1..Len(component.test_categories)}
        words == Range(Split(Lower(component.type)))
                 \cup Range(Split(Lower(component.application)))
                 \cup cats
                 \cup UNION {Range(keyword_map[c]) : c \in cats \cap DOMAIN keyword_map}
    IN  {Lower(t) : t \in {w \in words : Len(w) > 2}}

\* the boost for mandatory requirements left out
KeywordScoreNoBoost(matches, requirement_type) == Min(One, (matches * One) \div 6)

\* k_score of a requirement with `matches` matching terms
KeywordScore(matches, requirement_type) ==
    LET k_score == Min(One, (matches * One) \div 6)
    IN  IF requirement_type = "mandatory" THEN Min(One, (k_score * 12) \div 10)
        ELSE k_score

\* the agreement bonus dropped, as a weighting without it would score
FinalScoreNoBonus(s_score, k_score) ==
    Min(One, IF s_score > 0 /\ k_score > 0 THEN (6 * s_score + 4 * k_score) \div 10
             ELSE IF s_score > 0 THEN (9 * s_score) \div 10
             ELSE IF k_score > 0 THEN (8 * k_score) \div 10
             ELSE 0)

\* final_score before rounding
FinalScore(s_score, k_score) ==
    Min(One, IF s_score > 0 /\ k_score > 0
             THEN (6 * s_score + 4 * k_score) \div 10 + Tenth(1)
             ELSE IF s_score > 0 THEN (9 * s_score) \div 10
             ELSE IF k_score > 0 THEN (8 * k_score) \div 10
             ELSE 0)

\* round(x, 3): to the nearest thousandth, a tie going to the even one
Round3(x) ==
    LET unit == One \div 1000
        low  == x \div unit
        rest == x % unit
    IN  IF 2 * rest < unit THEN low * unit
        ELSE IF 2 * rest > unit THEN (low + 1) * unit
        ELSE IF low % 2 = 0 THEN low * unit ELSE (low + 1) * unit

\* position of the record for node_id in combined_results, 0 if none
IndexOf(combined, node_id) ==
    IF \E i \in 1..Len(combined) : combined[i].node_id = node_id
    THEN CHOOSE i \in 1..Len(combined) : combined[i].node_id = node_id
    ELSE 0

get_or_create_result(combined, node_id, node_data) ==
    IF IndexOf(combined, node_id) # 0 THEN combined
    ELSE Append(combined,
                [node_id |-> node_id,
                 node_type |-> "Requirement",
                 requirement_id |-> node_id,
                 requirement_type |-> Get(node_data, "requirement_type", "mandatory"),
                 text |-> Get(node_data, "text", ""),
                 keyword |-> Get(node_data, "keyword", "shall"),
                 parent_clause |-> Get(node_data, "parent_clause", ""),
                 semantic_score |-> 0,
                 keyword_score |-> 0,
                 matched_terms |-> {},
                 retrieval_method |-> "hybrid"])

\* semantic_results[hit['node_id']] = hit, over sem_hits from position i on:
\* keys in order of first occurrence, the last hit of a key stays
RECURSIVE SemanticResults(_, _, _)
SemanticResults(sem_hits, i, acc) ==
    IF i > Len(sem_hits) THEN acc
    ELSE LET hit == sem_hits[i]
             at  == IndexOf(acc, hit.node_id)
         IN  SemanticResults(sem_hits, i + 1,
                 IF at = 0 THEN Append(acc, hit) ELSE [acc EXCEPT ![at] = hit])

\* the loop over semantic_results.items(), from position i on
RECURSIVE MergeSemantic(_, _, _, _)
MergeSemantic(g, semantic_results, i, combined) ==
    IF i > Len(semantic_results) THEN combined
    ELSE LET hit == semantic_results[i]
         IN  IF has_node(g, hit.node_id)
             THEN LET c1 == get_or_create_result(combined, hit.node_id, g.data[hit.node_id])
                      at == IndexOf(c1, hit.node_id)
                  IN  MergeSemantic(g, semantic_results, i + 1,
                          [c1 EXCEPT ![at].semantic_score = hit.relevance_score])
             ELSE MergeSemantic(g, semantic_results, i + 1, combined)

\* the terms of search_terms that occur in the lower-cased text of a node
MatchedTerms(node_data, search_terms) ==
    LET req_text == Lower(Get(node_data, "text", ""))
    IN  {t \in search_terms : Contains(req_text, t)}

\* the requirement texts the source files hold, and the text of a node
\* that has none
Texts ==
    {""} \cup UNION {{Get(r, "text", "") : r \in Range(Get(FileContent(AllFiles[i]),
                                                            "requirements", <<>>))} :
                        i \in 1..Len(AllFiles)}

\* the keyword scan over graph.nodes(data=True), from position i on;
\* matched is MatchTable(g, search_terms)
RECURSIVE KeywordScan(_, _, _, _)
KeywordScan(g, matched, i, combined) ==
    IF i > Len(g.order) THEN combined
    ELSE LET node_id   == g.order[i]
             node_data == g.data[node_id]
             curr_matched_terms == matched[node_id]
             matches   == Cardinality(curr_matched_terms)
         IN  IF Get(node_data, "node_type", None) # "Requirement"
                \/ Get(node_data, "text", "") = ""
                \/ matches = 0
             THEN KeywordScan(g, matched, i + 1, combined)
             ELSE LET c1 == get_or_create_result(combined, node_id, node_data)
                      at == IndexOf(c1, node_id)
                      k_score == KeywordScore(matches,
                                     Get(node_data, "requirement_type", None))
                  IN  KeywordScan(g, matched, i + 1,
                          [c1 EXCEPT ![at].keyword_score = k_score,
                                     ![at].matched_terms = curr_matched_terms])

\* res['relevance_score'] for every record; final_score, which the code
\* keeps in a local variable, stays with the record for the properties
Scored(combined) ==
    [i \in 1..Len(combined) |->
        LET final_score == FinalScore(combined[i].semantic_score, combined[i].keyword_score)
        IN  Update(combined[i], [final_score |-> final_score,
                                 relevance_score |-> Round3(final_score)])]

\* the threshold test left out
SurvivingAll(scored, min_confidence) == scored

\* the records whose final_score reaches min_confidence, in dict order
Surviving(scored, min_confidence) ==
    SelectSeq(scored, LAMBDA res : res.final_score >= min_confidence)

\* list.sort(key=relevance_score, reverse=True): stable, so records of
\* equal relevance_score keep the order they had
RECURSIVE SortByScore(_, _, _)
SortByScore(list, i, acc) ==
    IF i > Len(list) THEN acc
    ELSE LET x == list[i]
             before == SelectSeq(acc, LAMBDA y : y.relevance_score >= x.relevance_score)
             after  == SelectSeq(acc, LAMBDA y : y.relevance_score < x.relevance_score)
         IN  SortByScore(list, i + 1, before \o <<x>> \o after)

\* combined_results after the semantic merge and the keyword scan
Combined(g, matched, semantic_results) ==
    KeywordScan(g, matched, 1, MergeSemantic(g, semantic_results, 1, <<>>))

\* final_list after the initial sort
Ranked(combined_results, min_confidence) ==
    SortByScore(Surviving(Scored(combined_results), min_confidence), 1, <<>>)

(***************************************************************************)
(* The retrieval handler as an operation on the served graph               *)
(***************************************************************************)
\* component profiles of the requests
Profiles ==
    {[type |-> "Shock Sensor", application |-> "automotive",
      test_categories |-> <<"mechanical">>],
     [type |-> "ECU", application |-> "in cabin",
      test_categories |-> <<"Environmental">>],
     [type |-> "PCB", application |-> "lab",
      test_categories |-> <<"emc">>]}

\* a profile whose type and application share words with a requirement
\* text that holds no term of its category
ScenarioProfiles ==
    {[type |-> "Humidity Sensor", application |-> "corrosion resist",
      test_categories |-> <<"mechanical">>]}

\* min_confidence: 0, 0.1333 and 0.3
MinConfidences == {0, 3999, Tenth(3)}

MaxResultsChoices == {1, 10}

\* hits one Semantic Provider answer holds at most
MaxHits == 2

\* (node_id, similarity) pairs the provider answers with: requirements,
\* a Clause id and an id that is not in the graph
SemHits ==
    {[node_id |-> "c1::req_0", relevance_score |-> Tenth(5)],
     [node_id |-> "c2::req_0", relevance_score |-> Tenth(5)],
     [node_id |-> "c2::req_1", relevance_score |-> Tenth(1)],
     [node_id |-> "c2::req_1", relevance_score |-> 0],
     [node_id |-> "c1", relevance_score |-> Tenth(5)],
     [node_id |-> "ghost::req_0", relevance_score |-> One]}

HitLists == UNION {[1..n -> SemHits] : n \in 0..MaxHits}

\* hits kept from a call that raised
ProviderOutcomesPartial ==
    IF search_engine = None THEN {[called |-> FALSE, raised |-> FALSE, hits |-> <<>>]}
    ELSE {[called |-> TRUE, raised |-> r, hits |-> h] : r \in BOOLEAN, h \in HitLists}

\* what search_requirements does: nothing to call, an exception, or hits
ProviderOutcomes ==
    IF search_engine = None THEN {[called |-> FALSE, raised |-> FALSE, hits |-> <<>>]}
    ELSE {[called |-> TRUE, raised |-> TRUE, hits |-> <<>>]}
         \cup {[called |-> TRUE, raised |-> FALSE, hits |-> h] : h \in HitLists}

Orderings(n) == {p \in [1..n -> 1..n] : \A i, j \in 1..n : p[i] = p[j] => i = j}

\* the given order turned round
Reversed(n) == [i \in 1..n |-> n + 1 - i]

\* list(range(n))
Identity(n) == [i \in 1..n |-> i]

\* SemanticSearchEngine.rerank over n candidates with top_k = n: the
\* CrossEncoder orders them any way, or predict raises and the indices
\* come back in their given order
RerankOutcomes(n) ==
    {[raised |-> TRUE, ranked_indices |-> Identity(n)]}
    \cup {[raised |-> FALSE, ranked_indices |-> p] : p \in Orderings(n)}

NotReranked == [raised |-> FALSE, ranked_indices |-> <<>>]

\* the reranker is called and its order left aside
RerankingIgnored(final_list, outcome) ==
    IF enable_reranking /\ search_engine = "reranker" /\ final_list # <<>>
    THEN [final_list |-> final_list, reranked |-> TRUE,
          candidate_texts |-> [i \in 1..Len(final_list) |-> final_list[i].text],
          top_k |-> Len(final_list)]
    ELSE [final_list |-> final_list, reranked |-> FALSE,
          candidate_texts |-> <<>>, top_k |-> 0]

\* the reranking step: final_list and the reranked flag, with the
\* candidate_texts and top_k handed to rerank (none when it is not called)
Reranking(final_list, outcome) ==
    IF enable_reranking /\ search_engine = "reranker" /\ final_list # <<>>
    THEN [final_list |-> [i \in 1..Len(outcome.ranked_indices) |->
                             final_list[outcome.ranked_indices[i]]],
          reranked |-> TRUE,
          candidate_texts |-> [i \in 1..Len(final_list) |-> final_list[i].text],
          top_k |-> Len(final_list)]
    ELSE [final_list |-> final_list, reranked |-> FALSE,
          candidate_texts |-> <<>>, top_k |-> 0]

\* final_list[:max_results]
FirstN(list, n) == SubSeq(list, 1, Min(n, Len(list)))

Respond(request, search_terms, provider, final_list, combined_results, outcome) ==
    LET re == Reranking(final_list, outcome)
        final_results == FirstN(re.final_list, request.max_results)
    IN  [pc |-> "done",
         request |-> request,
         provider |-> provider,
         reranker |-> outcome,
         rerank_call |-> [called |-> re.reranked,
                          candidate_texts |-> re.candidate_texts,
                          top_k |-> re.top_k],
         candidates |-> Scored(combined_results),
         ranked |-> final_list,
         results |-> final_results,
         total_results |-> Len(final_results),
         retrieval_metadata |->
             [search_terms |-> search_terms,
              total_requirements_searched |-> CountType(graph, "Requirement"),
              candidates_found |-> Len(combined_results),
              filtered_by_confidence |-> request.min_confidence,
              semantic_hits |-> Len(SemanticResults(provider.hits, 1, <<>>)),
              retrieval_method |-> IF re.reranked THEN "hybrid_reranked" ELSE "hybrid",
              reranking_enabled |-> enable_reranking]]

\* the term set of every profile
TermsOf == [component \in Profiles \cup ScenarioProfiles |-> SearchTerms(component)]

\* MatchedTerms of every text against the term set of every profile
Matching ==
    [component \in Profiles \cup ScenarioProfiles |->
        [text \in Texts |-> MatchedTerms([text |-> text], TermsOf[component])]]

\* MatchedTerms for every node of g
MatchTable(g, component) ==
    [n \in DOMAIN g.data |-> Matching[component][Get(g.data[n], "text", "")]]

query_knowledge_graph(request) ==
    /\ query.pc = "idle"
    /\ LET search_terms == TermsOf[request.component_profile]
           matched      == MatchTable(graph, request.component_profile)
       IN  \E provider \in ProviderOutcomes :
             LET semantic_results == SemanticResults(provider.hits, 1, <<>>)
                 combined_results == Combined(graph, matched, semantic_results)
                 final_list       == Ranked(combined_results, request.min_confidence)
             IN  \E outcome \in (IF enable_reranking /\ search_engine = "reranker"
                                    /\ final_list # <<>>
                                 THEN RerankOutcomes(Len(final_list))
                                 ELSE {NotReranked}) :
                     query' = Respond(request, search_terms, provider, final_list,
                                      combined_results, outcome)
    /\ UNCHANGED <<builder_vars, search_engine, enable_reranking, job_vars>>

\* the response has been sent
Return ==
    /\ query.pc = "done"
    /\ query' = QIdle
    /\ UNCHANGED <<builder_vars, search_engine, enable_reranking, job_vars>>

\* the mechanical queries with min_confidence 0.1
ScenarioRequests ==
    {[component_profile |-> component, min_confidence |-> Tenth(1), max_results |-> 10] :
        component \in {c \in Profiles \cup ScenarioProfiles :
                          c.test_categories = <<"mechanical">>}}

Requests ==
    [component_profile : Profiles, min_confidence : MinConfidences,
     max_results : MaxResultsChoices]
    \cup ScenarioRequests

\* directory listings of the successive build calls behind a served graph
ServedListings ==
    {<<{"a.json", "b.json", "c.json"}>>,
     <<{"b.json", "c.json"}, {"a.json", "b.json", "c.json"}>>,
     <<{"g.json"}>>,
     <<{"s.json"}>>}

\* the builder after one call per listing, both link passes enabled
RECURSIVE BuiltFrom(_, _, _)
BuiltFrom(listings, i, out) ==
    IF i > Len(listings) THEN out
    ELSE BuiltFrom(listings, i + 1,
                   BuildOutcome(out.graph, out.processed_files, listings[i], TRUE, TRUE))

\* a graph has been built and is served; the engine and the reranking
\* setting are fixed for the run
QInit ==
    \E listings \in ServedListings :
        LET out == BuiltFrom(listings, 1,
                       [new_files |-> <<>>, loaded |-> <<>>, graph |-> EmptyGraph,
                        processed_files |-> {}])
        IN  /\ universe = listings[Len(listings)]
            /\ dir = listings[Len(listings)]
            /\ graph = out.graph
            /\ processed_files = out.processed_files
            /\ saved = NoGraph
            /\ result = BuildReturn(out.graph, out.new_files)
            /\ calls = Len(listings)
            /\ last_call = NoCall
            /\ batch = EmptyDict
            /\ search_engine \in {None, "plain", "reranker"}
            /\ enable_reranking \in BOOLEAN
            /\ query = QIdle
            /\ NoJobs

QNext ==
    \/ \E request \in Requests : query_knowledge_graph(request)
    \/ Return

QSpec == QInit /\ [][QNext]_vars

(***************************************************************************)
(* Properties of the builder                                               *)
(***************************************************************************)
Clauses(g) == {n \in DOMAIN g.data : node_type(g, n) = "Clause"}

EdgeOfType(g, u, v, t) ==
    \E e \in g.edges : e.src = u /\ e.dst = v /\ e.edge_type = t

\* the last build call was made by a builder that had already built from
\* the same directory listing
SecondCallUnchangedDir == last_call.builds >= 2 /\ last_call.same_dir

\* C1: a second build_from_directory call of the same builder on an
\* unchanged directory reports new_files_processed = 0 and leaves the
\* checksum as the first call left it.
C1_IdempotentIngestion ==
    SecondCallUnchangedDir =>
        /\ result.new_files_processed = 0
        /\ last_call.checksum = last_call.prev_checksum

\* C2: for each (source, target, edge_type) at most one edge exists.
C2_EdgeUniqueness ==
    \A e1 \in graph.edges : \A e2 \in graph.edges :
        (e1.src = e2.src /\ e1.dst = e2.dst /\ e1.edge_type = e2.edge_type) => e1 = e2

\* C3: a build call never removes a key from processed_files, selects and
\* loads only files whose key is not yet in processed_files, and leaves the
\* Clause nodes of already processed files and their CONTAINS_REQUIREMENT
\* edges as they were.
C3_ProcessedOnlyGrows ==
    [][calls' = calls + 1 =>
          /\ processed_files \subseteq processed_files'
          /\ Range(last_call'.new_files) \cap processed_files = {}
          /\ Range(last_call'.loaded) \subseteq Range(last_call'.new_files)
          /\ \A n \in Clauses(graph') :
                 graph'.data[n].source_file \in processed_files =>
                     n \in DOMAIN graph.data /\ graph'.data[n] = graph.data[n]
          /\ \A e \in graph'.edges \ graph.edges :
                 e.edge_type = "CONTAINS_REQUIREMENT" =>
                     graph'.data[e.src].source_file \notin processed_files
      ]_vars

\* a later call loaded new files while files processed before were still
\* in the directory
C3_Witness ==
    /\ last_call.builds = 2
    /\ last_call.loaded # <<>>
    /\ last_call.pre_processed \cap last_call.dir # {}
    /\ last_call.pre_processed \subseteq processed_files

\* the last build call was the first one of a builder restored from a
\* pickle, over the directory listing the pickled graph was built from
FirstCallAfterRestore ==
    last_call.how \in {"ctor", "load"} /\ last_call.builds = 1 /\ last_call.same_dir

\* C4: after save_graph and a restore (constructor or load_graph), a build
\* over the unchanged directory reprocesses no file and the checksum is the
\* one before saving.
C4_ReloadResumes ==
    FirstCallAfterRestore =>
        /\ result.new_files_processed = 0
        /\ last_call.checksum = last_call.prev_checksum

InternalRefs(g, n) == Get(Get(g.data[n], "references", EmptyDict), "internal_resolved", <<>>)

StandardRefs(g, n) == Get(Get(g.data[n], "references", EmptyDict), "standards", <<>>)

\* C9: after a build that ran the reference pass, every internal reference
\* of a Clause A that resolves in the clause_id lookup to B has a REFERENCES
\* edge A -> B, whatever other edges join A to B, and every cited standard
\* has its CITES_STANDARD edge.
C9_ReferenceEdgesCoexist ==
    (last_call.passes /\ last_call.reference) =>
        \A a \in Clauses(graph) :
            /\ \A ref \in Range(InternalRefs(graph, a)) :
                   ref \in DOMAIN clause_lookup(graph) =>
                       EdgeOfType(graph, a, clause_lookup(graph)[ref], "REFERENCES")
            /\ \A std \in Range(StandardRefs(graph, a)) :
                   EdgeOfType(graph, a, ExtId(std), "CITES_STANDARD")

\* child c and the clause p its parent_id names were ingested by different
\* calls, the later of which is the last call
CrossBatch(c, p) ==
    /\ Truthy(graph.data[c].parent_id)
    /\ graph.data[c].parent_id = graph.data[p].clause_id
    /\ batch[c] \cap batch[p] = {}
    /\ calls \in batch[c] \cup batch[p]

\* C10: when child and parent clause come from different calls, after the
\* later call with structural linking the PARENT_OF edge parent -> child
\* exists, and SIBLING_OF edges join the child to every other resolvable
\* entry of the parent's children_ids.
C10_CrossBatchHierarchy ==
    (last_call.passes /\ last_call.structural) =>
        \A c \in Clauses(graph) : \A p \in Clauses(graph) :
            CrossBatch(c, p) =>
                /\ EdgeOfType(graph, p, c, "PARENT_OF")
                /\ InList(graph.data[c].clause_id, graph.data[p].children_ids) =>
                     \A sid \in Range(graph.data[p].children_ids) :
                         (sid # graph.data[c].clause_id /\ sid \in DOMAIN clause_lookup(graph))
                             => EdgeOfType(graph, c, clause_lookup(graph)[sid], "SIBLING_OF")

(***************************************************************************)
(* Properties of a query                                                   *)
(***************************************************************************)
Done == query.pc = "done"

\* the similarities and keyword scores a candidate can carry
SimilarityGrid == {0} \cup {h.relevance_score : h \in SemHits}

KeywordGrid ==
    {KeywordScore(m, t) : m \in 0..6, t \in {"mandatory", "recommended", "unknown"}}

\* C5: a candidate never scores below what it would score with a smaller
\* semantic_score (0 meaning absent) and the same keyword_score, nor below
\* what it would score with a smaller keyword_score and the same
\* semantic_score.
C5_FusionMonotone ==
    Done =>
        \A i \in 1..Len(query.candidates) :
            LET c == query.candidates[i]
            IN  /\ \A s \in SimilarityGrid :
                       s <= c.semantic_score =>
                           FinalScore(s, c.keyword_score) <= c.final_score
                /\ \A k \in KeywordGrid :
                       k <= c.keyword_score =>
                           FinalScore(c.semantic_score, k) <= c.final_score

\* C6: before reranking and truncation the surviving candidates are in
\* descending score order, candidates of equal score in ascending node id
\* order.
C6_RankingOrder ==
    Done =>
        \A i \in 1..Len(query.ranked) : \A j \in 1..Len(query.ranked) :
            i < j =>
                \/ query.ranked[i].relevance_score > query.ranked[j].relevance_score
                \/ /\ query.ranked[i].relevance_score = query.ranked[j].relevance_score
                   /\ StrLess(query.ranked[i].node_id, query.ranked[j].node_id)

\* C7 as stated: the relevance_score reported for every returned result is
\* not below min_confidence.
C7_ReportedScoreAboveThreshold ==
    Done =>
        \A i \in 1..Len(query.results) :
            query.results[i].relevance_score >= query.request.min_confidence

\* C7: every returned result has an unrounded final score not below
\* min_confidence; the reported relevance_score is that score rounded to
\* three decimals, so it is below min_confidence by at most 0.0005.
C7_FinalScoreAboveThreshold ==
    Done =>
        \A i \in 1..Len(query.results) :
            LET res == query.results[i]
            IN  /\ res.final_score >= query.request.min_confidence
                /\ res.relevance_score = Round3(res.final_score)
                /\ 2 * (query.request.min_confidence - res.relevance_score)
                       <= One \div 1000

\* a returned result passed the threshold and is reported below it
C7_Witness ==
    /\ Done
    /\ \E i \in 1..Len(query.results) :
           /\ query.results[i].final_score >= query.request.min_confidence
           /\ query.results[i].relevance_score < query.request.min_confidence

\* node ids of the semantic hits, the similarity of the hit that counts
\* for an id, and the node ids with at least one matching term
HitIds == {query.provider.hits[i].node_id : i \in 1..Len(query.provider.hits)}

HitScore(n) ==
    LET last == CHOOSE i \in 1..Len(query.provider.hits) :
                    /\ query.provider.hits[i].node_id = n
                    /\ \A j \in (i + 1)..Len(query.provider.hits) :
                           query.provider.hits[j].node_id # n
    IN  query.provider.hits[last].relevance_score

LexicalIds ==
    {n \in DOMAIN graph.data :
        /\ node_type(graph, n) = "Requirement"
        /\ Matching[query.request.component_profile]
                   [Get(graph.data[n], "text", "")] # {}}

CandidateIds == {query.candidates[i].node_id : i \in 1..Len(query.candidates)}

OneRecordPerId ==
    \A i, j \in 1..Len(query.candidates) :
        query.candidates[i].node_id = query.candidates[j].node_id => i = j

\* C8 as stated: one candidate per node id of either source; both sources
\* give min(1, 0.6 s + 0.4 k + 0.1), semantic only min(1, 0.9 s), lexical
\* only min(1, 0.8 k), for every s including 0.
C8_FusionFormulaAsStated ==
    Done =>
        /\ CandidateIds = HitIds \cup LexicalIds
        /\ OneRecordPerId
        /\ \A i \in 1..Len(query.candidates) :
               LET c == query.candidates[i]
                   k == c.keyword_score
               IN  c.final_score =
                       IF c.node_id \in HitIds \cap LexicalIds
                       THEN Min(One, (6 * HitScore(c.node_id) + 4 * k) \div 10 + Tenth(1))
                       ELSE IF c.node_id \in HitIds
                       THEN Min(One, (9 * HitScore(c.node_id)) \div 10)
                       ELSE Min(One, (8 * k) \div 10)

\* C8: one candidate per node id that is a lexical match or a semantic hit
\* on a node of the graph; a hit of similarity s > 0 on a lexical match
\* gives min(1, 0.6 s + 0.4 k + 0.1), a hit on a node without lexical match
\* min(1, 0.9 s), and a lexical match without hit, or with a hit of
\* similarity 0, min(1, 0.8 k).
C8_FusionFormula ==
    Done =>
        /\ CandidateIds = (HitIds \cap DOMAIN graph.data) \cup LexicalIds
        /\ OneRecordPerId
        /\ \A i \in 1..Len(query.candidates) :
               LET c == query.candidates[i]
                   k == c.keyword_score
                   s == IF c.node_id \in HitIds THEN HitScore(c.node_id) ELSE 0
               IN  /\ c.semantic_score = s
                   /\ (k > 0) = (c.node_id \in LexicalIds)
                   /\ c.final_score =
                       IF c.node_id \in LexicalIds /\ s > 0
                       THEN Min(One, (6 * s + 4 * k) \div 10 + Tenth(1))
                       ELSE IF c.node_id \in LexicalIds
                       THEN Min(One, (8 * k) \div 10)
                       ELSE Min(One, (9 * s) \div 10)

\* a query whose hits hold an id that is not in the graph and a hit of
\* similarity 0 on a lexical match
C8_Witness ==
    /\ Done
    /\ HitIds \ DOMAIN graph.data # {}
    /\ \E n \in HitIds \cap LexicalIds : HitScore(n) = 0

(***************************************************************************)
(* Node and edge integrity                                                 *)
(***************************************************************************)
\* C11: every Requirement node has a parent_clause that names a node of the
\* graph whose node type is Clause.
C11_RequirementParent ==
    \A n \in DOMAIN graph.data :
        node_type(graph, n) = "Requirement" =>
            /\ Get(graph.data[n], "parent_clause", None) \in DOMAIN graph.data
            /\ node_type(graph, Get(graph.data[n], "parent_clause", None)) = "Clause"

NodeTypes == {"Standard", "Clause", "Requirement", "ExternalStandard"}

\* C12: both end points of every edge are nodes that carry a node type, no
\* node exists without one, a PARENT_OF edge joins only a Clause to a Clause
\* that names it as parent_id, a REFERENCES edge only a Clause to a Clause it
\* lists in its internal references, and every build call returns its result.
C12_EndpointsExist ==
    /\ \A n \in DOMAIN graph.data : node_type(graph, n) \in NodeTypes
    /\ \A e \in graph.edges :
           /\ e.src \in DOMAIN graph.data
           /\ e.dst \in DOMAIN graph.data
           /\ e.edge_type = "PARENT_OF" =>
                  /\ Truthy(Get(graph.data[e.dst], "parent_id", None))
                  /\ Get(graph.data[e.dst], "parent_id", None)
                         = Get(graph.data[e.src], "clause_id", None)
           /\ e.edge_type = "REFERENCES" =>
                  InList(Get(graph.data[e.dst], "clause_id", None),
                         InternalRefs(graph, e.src))
    /\ calls > 0 => "new_files_processed" \in DOMAIN result

\* both link passes ran over a Clause whose parent_id resolves to no Clause
\* and which lists an internal reference that resolves to none
C12_Witness ==
    /\ last_call.passes /\ last_call.structural /\ last_call.reference
    /\ \E n \in Clauses(graph) :
           /\ Truthy(Get(graph.data[n], "parent_id", None))
           /\ Get(graph.data[n], "parent_id", None) \notin DOMAIN clause_lookup(graph)
           /\ \E ref \in Range(InternalRefs(graph, n)) :
                  ref \notin DOMAIN clause_lookup(graph)

(***************************************************************************)
(* Reranking and degradation                                               *)
(***************************************************************************)
\* the candidates of the response whose final score reaches min_confidence
Survivors ==
    {query.candidates[i].node_id :
        i \in {j \in 1..Len(query.candidates) :
                  query.candidates[j].final_score >= query.request.min_confidence}}

TextOf(n) ==
    LET i == CHOOSE j \in 1..Len(query.candidates) : query.candidates[j].node_id = n
    IN  query.candidates[i].text

\* C13: with reranking enabled and a reranker configured, rerank is handed
\* the texts of all candidates that passed min_confidence, in descending
\* score order and not cut to max_results; the response is the first
\* max_results items of the order rerank returned, each a survivor and none
\* twice.
C13_RerankScope ==
    (Done /\ enable_reranking /\ search_engine = "reranker") =>
        /\ query.rerank_call.called = (Survivors # {})
        /\ Len(query.ranked) = Cardinality(Survivors)
        /\ {query.ranked[i].node_id : i \in 1..Len(query.ranked)} = Survivors
        /\ \A i \in 1..Len(query.ranked) : \A j \in 1..Len(query.ranked) :
               i < j => query.ranked[i].relevance_score >= query.ranked[j].relevance_score
        /\ query.rerank_call.called =>
               /\ query.rerank_call.top_k = Cardinality(Survivors)
               /\ Len(query.rerank_call.candidate_texts) = Cardinality(Survivors)
               /\ \A i \in 1..Len(query.ranked) :
                      query.rerank_call.candidate_texts[i] = TextOf(query.ranked[i].node_id)
               /\ Len(query.results) = Min(query.request.max_results, Cardinality(Survivors))
               /\ \A i \in 1..Len(query.results) :
                      query.results[i] = query.ranked[query.reranker.ranked_indices[i]]
        /\ \A i \in 1..Len(query.results) : \A j \in 1..Len(query.results) :
               query.results[i].node_id = query.results[j].node_id => i = j
        /\ \A i \in 1..Len(query.results) : query.results[i].node_id \in Survivors

\* rerank returned an order of its own over more survivors than max_results
C13_Witness ==
    /\ Done /\ enable_reranking /\ search_engine = "reranker"
    /\ query.rerank_call.called
    /\ ~query.reranker.raised
    /\ Len(query.ranked) > query.request.max_results
    /\ query.reranker.ranked_indices # Identity(Len(query.ranked))

\* C14: when the reranker raises, the query completes and returns the first
\* max_results candidates in the order they had before reranking.
C14_RerankerFailure ==
    (Done /\ query.rerank_call.called /\ query.reranker.raised) =>
        /\ query.results = FirstN(query.ranked, query.request.max_results)
        /\ query.total_results = Len(query.results)
        /\ \A i \in 1..Len(query.ranked) : \A j \in 1..Len(query.ranked) :
               i < j => query.ranked[i].relevance_score >= query.ranked[j].relevance_score

\* the reranker raised over at least two survivors of different score
C14_Witness ==
    /\ Done /\ query.rerank_call.called /\ query.reranker.raised
    /\ Len(query.ranked) >= 2
    /\ query.request.max_results >= 2
    /\ query.ranked[1].relevance_score > query.ranked[2].relevance_score

\* C15: without a search engine, or when search_requirements raises, the
\* query completes with the lexical-only result: the candidates are the
\* requirements with at least one matching term, each with semantic_score 0
\* and final score min(1, 0.8 k), and the ranked list holds exactly those
\* of them that reach min_confidence.
C15_SemanticDegradation ==
    (Done /\ (~query.provider.called \/ query.provider.raised)) =>
        /\ CandidateIds = LexicalIds
        /\ OneRecordPerId
        /\ \A i \in 1..Len(query.candidates) :
               /\ query.candidates[i].semantic_score = 0
               /\ query.candidates[i].final_score
                      = Min(One, (8 * query.candidates[i].keyword_score) \div 10)
        /\ {query.ranked[i].node_id : i \in 1..Len(query.ranked)}
               = {query.candidates[i].node_id :
                      i \in {j \in 1..Len(query.candidates) :
                                Min(One, (8 * query.candidates[j].keyword_score) \div 10)
                                    >= query.request.min_confidence}}
        /\ Len(query.results) = Min(query.request.max_results, Len(query.ranked))
        /\ \A i \in 1..Len(query.results) :
               /\ query.results[i].semantic_score = 0
               /\ \E j \in 1..Len(query.ranked) : query.results[i] = query.ranked[j]

\* search_requirements raised; a lexical match is returned and another is
\* below min_confidence
C15_Witness ==
    /\ Done
    /\ query.provider.called /\ query.provider.raised
    /\ query.results # <<>>
    /\ Len(query.ranked) < Len(query.candidates)

(***************************************************************************)
(* Lexical score                                                           *)
(***************************************************************************)
\* min(1, m/6), times 1.2 and capped at 1 again for a mandatory requirement
LexicalScore(m, requirement_type) ==
    LET base    == IF m >= 6 THEN One ELSE (m * One) \div 6
        boosted == (12 * base) \div 10
    IN  IF requirement_type # "mandatory" THEN base
        ELSE IF boosted > One THEN One ELSE boosted

\* the Requirement nodes of the graph that have a text
TextRequirements ==
    {n \in DOMAIN graph.data :
        node_type(graph, n) = "Requirement" /\ Get(graph.data[n], "text", "") # ""}

\* the terms of the query that occur in the text of node n
TermsIn(n) == Matching[query.request.component_profile][Get(graph.data[n], "text", "")]

PENDING == "pending"

PROCESSING == "processing"

COMPLETED == "completed"

FAILED == "failed"

\* job requests in one behaviour
MaxJobs == 1

\* str(uuid.uuid4()): an id that no job entry has
NewJobId == Cardinality(DOMAIN status_log) + 1

\* d[k] = v
Put(d, k, v) == Update(d, [x \in {k} |-> v])

\* the entry a handler stores
NewJob(status) == [status |-> status, error |-> None, result |-> None]

\* background_tasks.add_task(func, job_id, ...)
AddTask(job_id, func, use_local) ==
    Put(tasks, job_id, [func |-> func, use_local |-> use_local, pc |-> "queued", attempt |-> 0])

\* positions of a task between two statements with no await behind it
Holding == {"attempt", "post_process"}

\* a task holds the event loop
Busy == \E j \in DOMAIN tasks : tasks[j].pc \in Holding

\* the statuses a step gave the entry, in order
Logged(job_id, statuses) == [status_log EXCEPT ![job_id] = @ \o statuses]

\* an except branch that records nothing
FailedNotRecorded(entry) == entry

\* the except branch of a task: status and error
Failed(entry) == [entry EXCEPT !.status = FAILED, !.error = "str(e)"]

\* status, current_step, progress and result set at the end of the try block
Completed(entry) == [entry EXCEPT !.status = COMPLETED, !.result = "result"]

\* the entry and the task a handler adds, with the observers of the job
Created(job_id, func, use_local) ==
    /\ tasks' = AddTask(job_id, func, use_local)
    /\ status_log' = Put(status_log, job_id, <<PENDING>>)
    /\ polled' = Put(polled, job_id, <<>>)

\* POST /graph/build
build_knowledge_graph ==
    /\ ~Busy
    /\ NewJobId <= MaxJobs
    /\ graph_jobs' = Put(graph_jobs, NewJobId, NewJob(PENDING))
    /\ Created(NewJobId, "process_graph_building", FALSE)
    /\ UNCHANGED <<builder_vars, retrieval_vars, ingestion_jobs, llm_jobs>>

(***************************************************************************)
(* process_graph_building (src/src/api/v1/graph.py) next to the retrieval  *)
(* handler.  Both are coroutines of one event loop and the build job holds *)
(* no await, so the job runs from its first to its last statement without  *)
(* a query in between: it is one step.                                     *)
(***************************************************************************)
\* the builder a job starts from
FreshBuilder ==
    [new_files |-> <<>>, loaded |-> <<>>, graph |-> EmptyGraph, processed_files |-> {}]

\* the directory the startup build and the build jobs read
JobDir == {"a.json", "b.json", "c.json"}

\* build_from_directory of a fresh builder over d: out is the builder
\* after the call, return the dictionary the call returns
BuildEntry(d, enable_structural, enable_reference) ==
    CHOOSE e \in {[enable_structural |-> enable_structural,
                   enable_reference |-> enable_reference,
                   out |-> y, return |-> BuildReturn(y.graph, y.new_files)] :
                     y \in {BuildOutcome(EmptyGraph, {}, d, enable_structural,
                                         enable_reference)}} : TRUE

\* BuildEntry over JobDir, worked out once for every choice of the link
\* passes
JobBuilds == {BuildEntry(JobDir, x[1], x[2]) : x \in BOOLEAN \X BOOLEAN}

\* BuildEntry(d, enable_structural, enable_reference), looked up for JobDir
JobBuild(d, enable_structural, enable_reference) ==
    CHOOSE e \in {IF known = {}
                  THEN BuildEntry(d, enable_structural, enable_reference)
                  ELSE CHOOSE k \in known : TRUE :
                     known \in {{k \in JobBuilds :
                                   /\ d = JobDir
                                   /\ k.enable_structural = enable_structural
                                   /\ k.enable_reference = enable_reference}}} : TRUE

\* the graphs served over JobDir: of the startup builds and of the jobs
JobGraphs ==
    {EmptyGraph}
    \cup {e.out.graph : e \in JobBuilds}
    \cup {BuiltFrom(listings, 1, FreshBuilder).graph : listings \in ServedListings}

\* _compute_checksum over JobGraphs, worked out once
JobChecksums == {[graph |-> g, checksum |-> _compute_checksum(g)] : g \in JobGraphs}

\* _compute_checksum(g), looked up for the graphs of JobGraphs
JobChecksum(g) ==
    CHOOSE c \in {IF known = {} THEN _compute_checksum(g)
                  ELSE (CHOOSE k \in known : TRUE).checksum :
                     known \in {{k \in JobChecksums : k.graph = g}}} : TRUE

\* last_call for a build job: before is the served graph when the job
\* started, completed tells whether build_from_directory returned, sums
\* maps the graph after the job and the graph before it to their checksums
JobObserve(out, before, sums, completed, enable_structural, enable_reference) ==
    [how |-> "job", builds |-> 1, dir |-> dir,
     checksum |-> sums[out.graph], same_dir |-> FALSE,
     prev_checksum |-> sums[before],
     new_files |-> out.new_files, loaded |-> out.loaded, pre_processed |-> {},
     structural |-> enable_structural, reference |-> enable_reference,
     passes |-> (completed /\ out.new_files # <<>>),
     before |-> before, completed |-> completed]

\* the background task; exists tells whether data_path is a directory when
\* build_from_directory looks for it (FileNotFoundError otherwise)
process_graph_building(job_id, exists, enable_structural_links, enable_reference_links, enable_semantic_links) ==
    /\ query.pc = "idle"
    /\ calls <= MaxCalls
    /\ ~Busy
    /\ job_id \in DOMAIN graph_jobs
    /\ job_id \in DOMAIN tasks
    /\ tasks[job_id].pc = "queued"
    /\ graph_jobs' = [graph_jobs EXCEPT ![job_id] = IF exists THEN Completed(@) ELSE Failed(@)]
    /\ tasks' = [tasks EXCEPT ![job_id].pc = "done"]
    /\ status_log' = Logged(job_id, <<PROCESSING, IF exists THEN COMPLETED ELSE FAILED>>)
    /\ calls' = calls + 1
    /\ \E build \in {JobBuild(dir, enable_structural_links, enable_reference_links)} :
         \E out \in {IF exists THEN build.out ELSE FreshBuilder} :
         \E sums \in {[g \in {out.graph, graph} |-> JobChecksum(g)]} :
           /\ graph' = out.graph
           /\ processed_files' = out.processed_files
           /\ last_call' = JobObserve(out, graph, sums, exists, enable_structural_links,
                                      enable_reference_links)
           /\ result' = IF exists THEN build.return ELSE result
           /\ saved' = IF exists
                       THEN [exists |-> TRUE, graph |-> out.graph, built_dir |-> dir]
                       ELSE saved
           /\ search_engine' = IF exists /\ enable_semantic_links THEN "plain"
                               ELSE search_engine
    /\ UNCHANGED <<universe, dir, batch, enable_reranking, query>>
    /\ UNCHANGED <<ingestion_jobs, llm_jobs, polled>>

\* the requests sent while build jobs run
JobRequests ==
    {req \in Requests :
        /\ req.component_profile.type = "Shock Sensor"
        /\ req.min_confidence = 0
        /\ req.max_results = 10}

\* the graph of the startup build is served, without a search engine
JInit ==
    /\ QInit
    /\ universe = {"a.json", "b.json", "c.json"}
    /\ calls = 1
    /\ search_engine = None
    /\ enable_reranking = FALSE

JNext ==
    \/ build_knowledge_graph
    \/ \E job_id \in 1..MaxJobs, exists \in BOOLEAN, s \in BOOLEAN, r \in BOOLEAN, sem \in BOOLEAN :
           process_graph_building(job_id, exists, s, r, sem)
    \/ \E request \in JobRequests : query_knowledge_graph(request)
    \/ Return

JSpec == JInit /\ [][JNext]_vars

(***************************************************************************)
(* Ingestion jobs (src/src/api/v1/ingest.py)                               *)
(***************************************************************************)
\* POST /ingest/fetch
fetch_external_data ==
    /\ ~Busy
    /\ NewJobId <= MaxJobs
    /\ ingestion_jobs' = Put(ingestion_jobs, NewJobId, NewJob(PENDING))
    /\ Created(NewJobId, "process_ingestion_job", FALSE)
    /\ UNCHANGED <<builder_vars, retrieval_vars, graph_jobs, llm_jobs>>

\* POST /ingest/local
ingest_local_data ==
    /\ ~Busy
    /\ NewJobId <= MaxJobs
    /\ ingestion_jobs' = Put(ingestion_jobs, NewJobId, NewJob(PENDING))
    /\ Created(NewJobId, "process_ingestion_job", TRUE)
    /\ UNCHANGED <<builder_vars, retrieval_vars, graph_jobs, llm_jobs>>

\* POST /ingest/upload: the files are written by the handler itself, no
\* task is added and the entry is stored with its final status
upload_documents ==
    /\ ~Busy
    /\ NewJobId <= MaxJobs
    /\ ingestion_jobs' = Put(ingestion_jobs, NewJobId, NewJob(COMPLETED))
    /\ status_log' = Put(status_log, NewJobId, <<COMPLETED>>)
    /\ polled' = Put(polled, NewJobId, <<>>)
    /\ UNCHANGED <<builder_vars, retrieval_vars, graph_jobs, llm_jobs, tasks>>

\* the task up to its first await.  use_local: load_from_local_directory
\* and the writes to temp_dir hold no await, and raised tells whether one
\* of them raised.  Otherwise the task awaits fetch_from_external_api.
process_ingestion_job(job_id, raised) ==
    /\ ~Busy
    /\ job_id \in DOMAIN ingestion_jobs
    /\ job_id \in DOMAIN tasks
    /\ tasks[job_id].pc = "queued"
    /\ IF tasks[job_id].use_local
       THEN /\ ingestion_jobs' = [ingestion_jobs EXCEPT ![job_id] =
                                     IF raised THEN Failed(@) ELSE Completed(@)]
            /\ tasks' = [tasks EXCEPT ![job_id].pc = "done"]
            /\ status_log' = Logged(job_id, <<PROCESSING,
                                               IF raised THEN FAILED ELSE COMPLETED>>)
       ELSE /\ ingestion_jobs' = [ingestion_jobs EXCEPT ![job_id].status = PROCESSING]
            /\ tasks' = [tasks EXCEPT ![job_id].pc = "fetching"]
            /\ status_log' = Logged(job_id, <<PROCESSING>>)
    /\ UNCHANGED <<builder_vars, retrieval_vars, graph_jobs, llm_jobs, polled>>

\* the task from the answer of the external API to its end: raised tells
\* whether the request (HTTPException 502) or a write to temp_dir raised
fetch_from_external_api(job_id, raised) ==
    /\ ~Busy
    /\ job_id \in DOMAIN ingestion_jobs
    /\ job_id \in DOMAIN tasks
    /\ tasks[job_id].pc = "fetching"
    /\ ingestion_jobs' = [ingestion_jobs EXCEPT ![job_id] =
                             IF raised THEN Failed(@) ELSE Completed(@)]
    /\ tasks' = [tasks EXCEPT ![job_id].pc = "done"]
    /\ status_log' = Logged(job_id, <<IF raised THEN FAILED ELSE COMPLETED>>)
    /\ UNCHANGED <<builder_vars, retrieval_vars, graph_jobs, llm_jobs, polled>>

(***************************************************************************)
(* Generation jobs (src/src/api/v1/llm.py)                                 *)
(***************************************************************************)
\* POST /llm/generate with the provider configured; generation_method
\* chooses the task
generate_test_procedures(generation_method) ==
    /\ ~Busy
    /\ NewJobId <= MaxJobs
    /\ llm_jobs' = Put(llm_jobs, NewJobId, NewJob(PENDING))
    /\ Created(NewJobId,
               IF generation_method = "deterministic"
               THEN "process_deterministic_generation" ELSE "process_llm_generation",
               FALSE)
    /\ UNCHANGED <<builder_vars, retrieval_vars, ingestion_jobs, graph_jobs>>

\* POST /llm/generate-deterministic
generate_test_procedures_deterministic ==
    /\ ~Busy
    /\ NewJobId <= MaxJobs
    /\ llm_jobs' = Put(llm_jobs, NewJobId, NewJob(PENDING))
    /\ Created(NewJobId, "process_deterministic_generation", FALSE)
    /\ UNCHANGED <<builder_vars, retrieval_vars, ingestion_jobs, graph_jobs>>

max_retries == 5

\* the task up to the retry loop: client_raised tells whether
\* get_llm_client raised
process_llm_generation(job_id, client_raised) ==
    /\ ~Busy
    /\ job_id \in DOMAIN llm_jobs
    /\ job_id \in DOMAIN tasks
    /\ tasks[job_id].func = "process_llm_generation"
    /\ tasks[job_id].pc = "queued"
    /\ llm_jobs' = [llm_jobs EXCEPT ![job_id] =
                       IF client_raised THEN Failed(@)
                       ELSE [@ EXCEPT !.status = PROCESSING]]
    /\ tasks' = [tasks EXCEPT ![job_id].pc = IF client_raised THEN "done" ELSE "attempt"]
    /\ status_log' = Logged(job_id, IF client_raised THEN <<PROCESSING, FAILED>>
                                    ELSE <<PROCESSING>>)
    /\ UNCHANGED <<builder_vars, retrieval_vars, ingestion_jobs, graph_jobs, polled>>

\* the task after a rate-limit error: the next attempt of
\* range(max_retries), or the statements behind the loop with content ""
Retry(task) ==
    [task EXCEPT !.pc = IF task.attempt < max_retries THEN "attempt" ELSE "post_process"]

\* one pass of the retry loop; attempt counts the calls of the client.
\* outcome: the call returned, raised a rate-limit error (429, quota,
\* resource_exhausted, 503: time.sleep and continue), or raised another
\* error (re-raised into the except branch of the task)
generate_content(job_id, outcome) ==
    /\ job_id \in DOMAIN llm_jobs
    /\ job_id \in DOMAIN tasks
    /\ tasks[job_id].pc = "attempt"
    /\ LET called == [tasks[job_id] EXCEPT !.attempt = @ + 1]
       IN  CASE outcome = "returned" ->
                  /\ tasks' = [tasks EXCEPT ![job_id] = [called EXCEPT !.pc = "post_process"]]
                  /\ UNCHANGED <<llm_jobs, status_log>>
             [] outcome = "rate_limited" ->
                  /\ tasks' = [tasks EXCEPT ![job_id] = Retry(called)]
                  /\ UNCHANGED <<llm_jobs, status_log>>
             [] outcome = "raised" ->
                  /\ tasks' = [tasks EXCEPT ![job_id] = [called EXCEPT !.pc = "done"]]
                  /\ llm_jobs' = [llm_jobs EXCEPT ![job_id] = Failed(@)]
                  /\ status_log' = Logged(job_id, <<FAILED>>)
    /\ UNCHANGED <<builder_vars, retrieval_vars, ingestion_jobs, graph_jobs, polled>>

\* the statements behind the retry loop.  result_payload reads
\* acceptance_criteria, a name the function never binds and the module
\* does not define: NameError, and the except branch of the task
post_process(job_id) ==
    /\ job_id \in DOMAIN llm_jobs
    /\ job_id \in DOMAIN tasks
    /\ tasks[job_id].pc = "post_process"
    /\ llm_jobs' = [llm_jobs EXCEPT ![job_id] = Failed(@)]
    /\ tasks' = [tasks EXCEPT ![job_id].pc = "done"]
    /\ status_log' = Logged(job_id, <<FAILED>>)
    /\ UNCHANGED <<builder_vars, retrieval_vars, ingestion_jobs, graph_jobs, polled>>

\* min_confidence of the query of the deterministic task: 0.4
DeterministicConfidence == Tenth(4)

\* the profiles of the generation requests
GenerationProfiles == {c \in Profiles : c.type = "Shock Sensor"}

\* final_list of the query the deterministic task sends
DeterministicQuery(g, component, hits) ==
    Ranked(Combined(g, MatchTable(g, component), SemanticResults(hits, 1, <<>>)),
           DeterministicConfidence)

\* the graph of a build over the three files, and the graph of a builder
\* whose build raised
BuiltGraphs ==
    {EmptyGraph,
     BuildOutcome(EmptyGraph, {}, {"a.json", "b.json", "c.json"}, TRUE, TRUE).graph}

\* the answers of search_requirements to the query of a generation job:
\* no hit or one
GenerationHits == {<<>>} \cup {<<h>> : h \in SemHits}

\* what search_requirements does for a generation job
GenerationOutcomes == {p \in ProviderOutcomes : p.hits \in GenerationHits}

\* DeterministicQuery over the built graphs, worked out once
DeterministicTable ==
    {[g |-> x[1], component |-> x[2], hits |-> x[3],
      final_list |-> DeterministicQuery(x[1], x[2], x[3])] :
        x \in BuiltGraphs \X GenerationProfiles \X GenerationHits}

\* response.results of the query the deterministic task sends: empty
\* exactly when final_list is (max_results is positive)
DeterministicResults(component, provider) ==
    IF /\ provider.hits \in GenerationHits
       /\ component \in GenerationProfiles
       /\ graph \in BuiltGraphs
    THEN (CHOOSE e \in DeterministicTable :
             e.hits = provider.hits /\ e.component = component /\ e.g = graph).final_list
    ELSE DeterministicQuery(graph, component, provider.hits)

\* the whole task: the awaited query_knowledge_graph suspends nowhere.
\* export_raised tells whether output_dir.mkdir, the import of
\* PTPGenerator or its constructor raised; generate_ptp_docx has a try
\* block of its own
process_deterministic_generation(job_id, component, provider, export_raised) ==
    /\ ~Busy
    /\ job_id \in DOMAIN llm_jobs
    /\ job_id \in DOMAIN tasks
    /\ tasks[job_id].func = "process_deterministic_generation"
    /\ tasks[job_id].pc = "queued"
    /\ tasks' = [tasks EXCEPT ![job_id].pc = "done"]
    /\ \E results \in {DeterministicResults(component, provider)} :
           CASE results = <<>> ->
                  /\ llm_jobs' = [llm_jobs EXCEPT ![job_id] = Failed(@)]
                  /\ status_log' = Logged(job_id, <<PROCESSING, FAILED>>)
             [] results # <<>> /\ ~export_raised ->
                  /\ llm_jobs' = [llm_jobs EXCEPT ![job_id] = Completed(@)]
                  /\ status_log' = Logged(job_id, <<PROCESSING, COMPLETED>>)
             [] results # <<>> /\ export_raised ->
                  /\ llm_jobs' = [llm_jobs EXCEPT ![job_id] = Failed(Completed(@))]
                  /\ status_log' = Logged(job_id, <<PROCESSING, COMPLETED, FAILED>>)
    /\ UNCHANGED <<builder_vars, retrieval_vars, ingestion_jobs, graph_jobs, polled>>

(***************************************************************************)
(* Status endpoints and the clients that poll them                         *)
(***************************************************************************)
\* the status the client of the job read last, None before its first poll
LastReported(job_id) ==
    IF polled[job_id] = <<>> THEN None ELSE polled[job_id][Len(polled[job_id])]

Terminal == {COMPLETED, FAILED}

\* GET .../status/{job_id} by a client that polls until it reads completed
\* or failed (wait_for_job, run_ingestion_workflow).  A poll that reads
\* the status of the poll before changes nothing.
Report(jobs, job_id) ==
    /\ ~Busy
    /\ job_id \in DOMAIN jobs
    /\ LastReported(job_id) \notin Terminal
    /\ LastReported(job_id) # jobs[job_id].status
    /\ polled' = [polled EXCEPT ![job_id] = Append(@, jobs[job_id].status)]
    /\ UNCHANGED <<builder_vars, retrieval_vars>>
    /\ UNCHANGED <<ingestion_jobs, graph_jobs, llm_jobs, tasks, status_log>>

get_ingestion_status(job_id) == Report(ingestion_jobs, job_id)

get_graph_status(job_id) == Report(graph_jobs, job_id)

get_llm_generation_status(job_id) == Report(llm_jobs, job_id)

\* the startup build is served, with or without a search engine
LInit ==
    /\ QInit
    /\ universe = {"a.json", "b.json", "c.json"}
    /\ calls = 1
    /\ search_engine \in {None, "plain"}
    /\ enable_reranking = FALSE

\* the steps of the background task of a job
TaskStep(job_id) ==
    \/ \E raised \in BOOLEAN : process_ingestion_job(job_id, raised)
    \/ \E raised \in BOOLEAN : fetch_from_external_api(job_id, raised)
    \/ \E exists \in BOOLEAN, sem \in BOOLEAN :
           process_graph_building(job_id, exists, TRUE, TRUE, sem)
    \/ \E client_raised \in BOOLEAN : process_llm_generation(job_id, client_raised)
    \/ \E outcome \in {"returned", "rate_limited", "raised"} : generate_content(job_id, outcome)
    \/ post_process(job_id)
    \/ \E component \in GenerationProfiles, provider \in GenerationOutcomes, export_raised \in BOOLEAN :
           process_deterministic_generation(job_id, component, provider, export_raised)

\* the polls of the client of a job
Poll(job_id) ==
    \/ get_ingestion_status(job_id)
    \/ get_graph_status(job_id)
    \/ get_llm_generation_status(job_id)

LNext ==
    \/ fetch_external_data
    \/ ingest_local_data
    \/ upload_documents
    \/ build_knowledge_graph
    \/ \E generation_method \in {"llm", "deterministic"} :
           generate_test_procedures(generation_method)
    \/ generate_test_procedures_deterministic
    \/ \E job_id \in 1..MaxJobs : TaskStep(job_id)
    \/ \E job_id \in 1..MaxJobs : Poll(job_id)

LSpec == LInit /\ [][LNext]_vars

\* starlette runs every added task once the response is sent, the event
\* loop resumes a task whose awaited call has returned or raised, and a
\* polling client sleeps and asks again
FairLSpec ==
    /\ LSpec
    /\ \A job_id \in 1..MaxJobs : WF_vars(TaskStep(job_id)) /\ WF_vars(Poll(job_id))

\* C17: a query that follows a build job observes the graph served before
\* the job started or the complete graph the job built, and never an empty
\* graph.
C17_ReaderWriterExclusion ==
    (Done /\ last_call.how = "job") =>
        /\ graph.order # <<>>
        /\ \/ graph = last_call.before
           \/ /\ last_call.completed
              /\ graph = BuildOutcome(EmptyGraph, {}, dir, last_call.structural,
                                      last_call.reference).graph

(***************************************************************************)
(* Bad documents, checksum and requirement ids                             *)
(***************************************************************************)
\* a file that json.load reads and whose document has both ids
ValidFile(f) ==
    /\ Loadable(f)
    /\ Get(FileContent(f), "chunk_id", "") # ""
    /\ Get(FileContent(f), "document_id", "") # ""

\* the requirement texts of the files that are not valid
BadTexts ==
    UNION {{Get(r, "text", "") : r \in Range(Get(FileContent(AllFiles[i]),
                                                  "requirements", <<>>))} :
              i \in {j \in 1..Len(AllFiles) : ~ValidFile(AllFiles[j])}}

\* C18: a file that cannot be parsed and a document without chunk_id or
\* document_id give no node and no edge, the call returns its result, and
\* every valid document of the same call has its Clause node, its
\* Requirement nodes and the CONTAINS edges; the first call of a fresh
\* builder leaves the graph the valid files alone would give.
C18_BadDocumentsSkipped ==
    last_call.passes =>
        /\ "new_files_processed" \in DOMAIN result
        /\ \A n \in DOMAIN graph.data :
               /\ Get(graph.data[n], "text", "") \notin BadTexts
               /\ "source_file" \in DOMAIN graph.data[n] =>
                      ValidFile(graph.data[n].source_file)
        /\ \A f \in Range(last_call.new_files) :
               ValidFile(f) =>
                   LET doc == FileContent(f)
                   IN  /\ doc.chunk_id \in Clauses(graph)
                       /\ EdgeOfType(graph, doc.document_id, doc.chunk_id, "CONTAINS_CLAUSE")
                       /\ \A idx \in 0..(Len(Get(doc, "requirements", <<>>)) - 1) :
                              /\ node_type(graph, ReqId(doc.chunk_id, idx)) = "Requirement"
                              /\ EdgeOfType(graph, doc.chunk_id, ReqId(doc.chunk_id, idx),
                                            "CONTAINS_REQUIREMENT")
        /\ (last_call.how = "fresh" /\ last_call.builds = 1) =>
               LET valid == SelectSeq(last_call.new_files, ValidFile)
                   alone == BuildGraph(EmptyGraph, Documents(valid), {},
                                       last_call.structural, last_call.reference)
               IN  /\ graph.order = alone.order
                   /\ graph.data = alone.data
                   /\ graph.edges = alone.edges

\* one call met an unparseable file, a document without chunk_id and a
\* valid document
C18_Witness ==
    /\ last_call.passes
    /\ \E f \in Range(last_call.new_files) : ~Loadable(f)
    /\ \E f \in Range(last_call.new_files) : Loadable(f) /\ ~ValidFile(f)
    /\ \E f \in Range(last_call.new_files) :
           ValidFile(f) /\ FileContent(f).chunk_id \in Clauses(graph)

\* C19: the canonical representation behind the checksum holds the node
\* count, the edge count and the (at most) 10 smallest node ids in ascending
\* order and nothing else, so it is the same for graphs that agree on the
\* three, whatever their attributes and insertion order, and differs for
\* graphs that do not.
C19_ChecksumDeterminism ==
    LET cs    == _compute_checksum(graph)
        ids   == DOMAIN graph.data
        bare  == [graph EXCEPT !.data = [n \in ids |-> EmptyDict],
                               !.meta = EmptyDict,
                               !.order = [i \in 1..Len(graph.order) |->
                                             graph.order[Len(graph.order) + 1 - i]]]
    IN  /\ DOMAIN cs = {"nodes", "edges", "node_ids"}
        /\ cs.nodes = Cardinality(ids)
        /\ cs.edges = Cardinality(graph.edges)
        /\ Len(cs.node_ids) = (IF Cardinality(ids) < 10 THEN Cardinality(ids) ELSE 10)
        /\ Range(cs.node_ids) \subseteq ids
        /\ \A i \in 1..Len(cs.node_ids) : \A j \in 1..Len(cs.node_ids) :
               i < j => IdLess(cs.node_ids[i], cs.node_ids[j])
        /\ \A x \in ids \ Range(cs.node_ids) :
               \A y \in Range(cs.node_ids) : IdLess(y, x)
        /\ _compute_checksum(bare) = cs

\* a graph of more than 10 nodes whose 10 smallest ids are not the 10
\* nodes inserted first
C19_Witness ==
    /\ Cardinality(DOMAIN graph.data) > 10
    /\ Range(_compute_checksum(graph).node_ids) # Range(SubSeq(graph.order, 1, 10))

\* decimal digits of the list positions that occur
DigitOf == <<"0", "1", "2">>

\* "c::req_i" spelled out
Spelled(c, i) == c \o "::req_" \o DigitOf[i + 1]

\* C20: the i-th (zero-based) requirement of a document with chunk_id c has
\* the node id "c::req_i", with requirement_id the same and parent_clause c,
\* in whatever call, batch or builder the document is ingested; no
\* Requirement node has an id of another form.
C20_RequirementIds ==
    /\ \A n \in DOMAIN graph.data :
           node_type(graph, n) = "Requirement" =>
               \E j \in 1..Len(AllFiles) :
                   LET doc == FileContent(AllFiles[j])
                   IN  /\ ValidFile(AllFiles[j])
                       /\ \E i \in 0..(Len(Get(doc, "requirements", <<>>)) - 1) :
                              /\ n = Spelled(doc.chunk_id, i)
                              /\ graph.data[n].requirement_id = n
                              /\ graph.data[n].parent_clause = doc.chunk_id
    /\ last_call.passes =>
           \A f \in Range(last_call.loaded) :
               ValidFile(f) =>
                   LET doc == FileContent(f)
                   IN  \A i \in 0..(Len(Get(doc, "requirements", <<>>)) - 1) :
                           /\ Spelled(doc.chunk_id, i) \in DOMAIN graph.data
                           /\ node_type(graph, Spelled(doc.chunk_id, i)) = "Requirement"
                           /\ graph.data[Spelled(doc.chunk_id, i)].parent_clause = doc.chunk_id

\* a document with requirements was ingested a second time, by a builder
\* that had loaded the graph of the first ingestion, and no node was added
C20_Witness ==
    /\ last_call.passes /\ last_call.how = "load" /\ last_call.builds = 1
    /\ last_call.prev_checksum.nodes > 0
    /\ last_call.checksum.nodes = last_call.prev_checksum.nodes
    /\ \E f \in Range(last_call.loaded) :
           ValidFile(f) /\ Len(Get(FileContent(f), "requirements", <<>>)) >= 2

(***************************************************************************)
(* Clause hierarchy                                                        *)
(***************************************************************************)
\* C21: no SIBLING_OF edge has the same node as source and target; both
\* are Clause nodes.
C21_NoSiblingSelfLoop ==
    \A e \in graph.edges :
        e.edge_type = "SIBLING_OF" =>
            /\ e.src # e.dst
            /\ e.src \in Clauses(graph) /\ e.dst \in Clauses(graph)

\* the structural pass ran over a parent whose children_ids hold its own
\* clause_id and one clause_id twice, which two Clause nodes carry, and
\* SIBLING_OF edges were added
C21_Witness ==
    /\ last_call.passes /\ last_call.structural
    /\ \E e \in graph.edges : e.edge_type = "SIBLING_OF"
    /\ \E p \in Clauses(graph) :
           LET children == graph.data[p].children_ids
           IN  /\ InList(graph.data[p].clause_id, children)
               /\ \E i \in 1..Len(children) : \E j \in 1..Len(children) :
                      /\ i # j /\ children[i] = children[j]
                      /\ \E c1 \in Clauses(graph) : \E c2 \in Clauses(graph) :
                             /\ c1 # c2
                             /\ graph.data[c1].clause_id = children[i]
                             /\ graph.data[c2].clause_id = children[i]
                             /\ graph.data[c1].parent_id = graph.data[p].clause_id
                             /\ graph.data[c2].parent_id = graph.data[p].clause_id

\* the number of dots in s
Dots(s) == Cardinality({i \in 1..Len(s) : SubSeq(s, i, i) = "."})

\* C23: the depth of a Clause node is the number of dot-separated segments
\* of its clause_id, and 0 when the clause_id is empty or "misc"; "Annex
\* 4.2.1" gives 3.
C23_Depth ==
    /\ DepthOf("Annex 4.2.1") = 3
    /\ DepthOf("") = 0
    /\ DepthOf("misc") = 0
    /\ \A n \in Clauses(graph) :
           graph.data[n].depth =
               IF graph.data[n].clause_id \in {"", "misc"} THEN 0
               ELSE Dots(graph.data[n].clause_id) + 1

\* Clause nodes with the clause_ids "Annex 4.2.1" and "misc" are in the graph
C23_Witness ==
    /\ \E n \in Clauses(graph) :
           graph.data[n].clause_id = "Annex 4.2.1" /\ graph.data[n].depth = 3
    /\ \E n \in Clauses(graph) :
           graph.data[n].clause_id = "misc" /\ graph.data[n].depth = 0

\* C29: every PARENT_OF, SIBLING_OF and REFERENCES edge joins two Clause
\* nodes that have the same document_id.
C29_LinksInsideStandard ==
    \A e \in graph.edges :
        e.edge_type \in {"PARENT_OF", "SIBLING_OF", "REFERENCES"} =>
            /\ e.src \in Clauses(graph) /\ e.dst \in Clauses(graph)
            /\ graph.data[e.src].document_id = graph.data[e.dst].document_id

(***************************************************************************)
(* Batches                                                                 *)
(***************************************************************************)
\* the node ids with their types and the (source, target, edge_type) triples
Shape(g) ==
    [types   |-> [n \in DOMAIN g.data |-> node_type(g, n)],
     triples |-> {<<e.src, e.dst, e.edge_type>> : e \in g.edges}]

\* the graph one call of a fresh builder gives over the files
OneCall(files, enable_structural, enable_reference) ==
    BuildOutcome(EmptyGraph, {}, files, enable_structural, enable_reference).graph

\* C28: when the graph of a builder is the one a single call over its
\* processed files gives, then after one more call with the same flags,
\* over a directory with more files, it is the one a single call over all
\* of them gives: same node ids and types, same (source, target, edge_type)
\* triples.
C28_BatchPartitionInvariance ==
    [][(/\ calls' = calls + 1
        /\ last_call'.how = "fresh"
        /\ last_call'.passes
        /\ Shape(graph) = Shape(OneCall(processed_files, last_call'.structural,
                                        last_call'.reference)))
       => Shape(graph') = Shape(OneCall(processed_files', last_call'.structural,
                                        last_call'.reference))
      ]_vars

(***************************************************************************)
(* Query metadata and results                                              *)
(***************************************************************************)
\* C24: the metadata of a response reads retrieval_method =
\* "hybrid_reranked" exactly when the returned order came from the
\* Reranker: rerank was called and did not fall back to the given order.
C24_RerankMetadata ==
    Done =>
        ((query.retrieval_metadata.retrieval_method = "hybrid_reranked")
             <=> (query.rerank_call.called /\ ~query.reranker.raised))

\* C30: every returned result has the id of a node of the graph whose node
\* type is Requirement, whatever ids the Semantic Provider answered with.
C30_ResultsAreRequirements ==
    Done =>
        \A i \in 1..Len(query.results) :
            /\ query.results[i].node_id \in DOMAIN graph.data
            /\ node_type(graph, query.results[i].node_id) = "Requirement"

(***************************************************************************)
(* End-to-end scenario                                                     *)
(***************************************************************************)
Vibration == "shall withstand vibration"

Humidity == "should resist humidity"

\* one Standard, one Clause "4.2" without parent_id and the two
\* requirements, queried for the mechanical category with min_confidence
\* 0.1 and no Semantic Provider
Scenario ==
    /\ Done
    /\ graph.order = <<"S1", "s1", "s1::req_0", "s1::req_1">>
    /\ graph.data["s1"].clause_id = "4.2" /\ graph.data["s1"].parent_id = None
    /\ graph.data["s1::req_0"].text = Vibration
    /\ graph.data["s1::req_1"].text = Humidity
    /\ query.request.component_profile.test_categories = <<"mechanical">>
    /\ query.request.min_confidence = Tenth(1)
    /\ ~query.provider.called

\* positions of the results with the given text
PositionsOf(text) == {i \in 1..Len(query.results) : query.results[i].text = text}

\* the words of type and application that count as terms
ProfileWords(component) ==
    {w \in Range(Split(Lower(component.type)))
           \cup Range(Split(Lower(component.application))) : Len(w) > 2}

C27_FailedBuildKeepsGraph ==
    (last_call.how = "job" /\ ~last_call.completed) =>
        /\ graph.data = last_call.before.data
        /\ graph.edges = last_call.before.edges

(***************************************************************************)
(* Job lifecycle                                                           *)
(***************************************************************************)
\* s is t or a beginning of t
IsPrefix(s, t) == Len(s) <= Len(t) /\ SubSeq(t, 1, Len(s)) = s

\* C25: the status of every job of ingestion_jobs, graph_jobs and llm_jobs
\* starts at pending and changes only along pending -> processing ->
\* completed or pending -> processing -> failed, completed and failed
\* being final.
C25_JobLifecycle ==
    \A job_id \in DOMAIN status_log :
        \/ IsPrefix(status_log[job_id], <<PENDING, PROCESSING, COMPLETED>>)
        \/ IsPrefix(status_log[job_id], <<PENDING, PROCESSING, FAILED>>)

\* the entry of a job, whichever dictionary holds it
JobEntry(job_id) ==
    IF job_id \in DOMAIN ingestion_jobs THEN ingestion_jobs[job_id]
    ELSE IF job_id \in DOMAIN graph_jobs THEN graph_jobs[job_id]
    ELSE llm_jobs[job_id]

\* the polling client of the job has read completed or failed and returned
ClientReturned(job_id) ==
    LastReported(job_id) \in Terminal

\* C26: every background job that is started reaches status completed or
\* failed when each external call returns or raises, the retry loop calls
\* the LLM at most max_retries times, and the client that polls the status
\* endpoint reads completed or failed.
C26_JobsFinish ==
    /\ [](\A job_id \in DOMAIN tasks : tasks[job_id].attempt <= max_retries)
    /\ \A job_id \in 1..MaxJobs :
           (job_id \in DOMAIN tasks)
               ~> (/\ job_id \in DOMAIN tasks
                   /\ JobEntry(job_id).status \in Terminal
                   /\ ClientReturned(job_id))

\* a generation job whose every attempt was rate-limited has failed, and
\* its client has read so
C26_Witness ==
    \E job_id \in DOMAIN tasks :
        /\ tasks[job_id].func = "process_llm_generation"
        /\ tasks[job_id].attempt = max_retries
        /\ tasks[job_id].pc = "done"
        /\ JobEntry(job_id).status = FAILED
        /\ polled[job_id] = <<PENDING, FAILED>>
====
